---- MODULE Spec2Model ----
(***************************************************************************)
(* A model of the vibemux session engine and dispatch layer:               *)
(*   - RingBuffer            (internal/runtime/buffer.go)                  *)
(*   - PTYSession            (internal/runtime/session.go)                 *)
(*   - DefaultEngine         (internal/runtime/engine.go)                  *)
(*   - WaitForOutput         (internal/ui/messages.go)                     *)
(*   - App.Update handlers   (internal/ui/update.go)                       *)
(*   - outputWatcher         (internal/ui, output watcher)                 *)
(*   - IMEBuffer, key input  (internal/ui, update.go)                      *)
(*   - ChainContext          (internal/runtime/chain.go)                   *)
(*   - turn sequence         (internal/ui/logic_turn.go)                   *)
(* Each component has its own specification; a specification leaves the    *)
(* variables of the other components unchanged.                            *)
(***************************************************************************)
EXTENDS Integers, Sequences, FiniteSets, Bags, TLC

VARIABLES
    rb,         \* the RingBuffer under test: [data, size, start, end, full]
    rbLog,      \* every byte written to rb since creation or the last Reset
    rbEach,     \* a RingBuffer of the byte-at-a-time implementation, given the
                \* same writes and resets as rb
    sess,       \* the PTYSession objects ever constructed, by object number
    nextObj,    \* the number the next constructed PTYSession gets
    sessions,   \* DefaultEngine.sessions: project id -> object number (0: no entry)
    tasks,      \* bag of the UI's outstanding commands and undelivered messages
    uiLog,      \* per session object, the SessionOutputMsg payloads the UI loop handled
    lastCreate, \* what the last CreateSession call saw and returned
    lastWrite,  \* what the last PTYSession.Write call saw and returned
    watcher,    \* the outputWatcher of the project
    now,        \* the wall clock, in seconds
    level,      \* AutoApprove of the project's profile ("nil": no profile)
    frames,     \* number of output frames the UI loop has handled
    autoLog,    \* the auto-replies staged, each with its line and what became of it
    evLog,      \* the events Process returned, each with its time
    app,        \* the App: input mode, dispatch mode, active terminal, IME buffer, turns
    timers,     \* bag of the IMEFlushMsg timers armed and not yet handled, by target
    alive,      \* the terminal ids whose engine session has status running
    stdin,      \* per terminal id, the bytes written to its session so far
    origin,     \* per rune staged in the IME buffer, the target it was staged for
    lastKey,    \* what the last key handled by handleTerminalKeys did
    keyLog,     \* the keys handleTerminalKeys sent to a session, each with its target
    trail,      \* moved: the mode or the active terminal has changed;
                \* leak: the <<from, to>> with runes staged for from written to to
    chain,      \* the ChainContext, its file, and the AppendConclusion calls
    turn,       \* the App's turn fields, the commands it issued, what the
                \* sessions were sent
    env,        \* the profiles' environment overlays, the registry entries and
                \* the children launched, as CreateSession and BuildCommand see them
    lastCall,   \* what the last Start, Resize or CloseSession call saw and returned
    ext,        \* a cleaned text and the conclusion extracted from it
    lk          \* the locks of one session and of the engine, and the callers
                \* inside Write, Stop and CloseSession

ringVars == <<rb, rbLog, rbEach>>
sessVars == <<sess, nextObj, sessions, tasks, uiLog, lastCreate, lastWrite>>
watchVars == <<watcher, now, level, frames, autoLog, evLog>>
inputVars == <<app, timers, alive, stdin, origin, lastKey, keyLog, trail>>

chainVars == <<chain>>
turnVars == <<turn>>
envVars == <<env>>
callVars == <<lastCall>>
extVars == <<ext>>
lockVars == <<lk>>

vars == <<ringVars, sessVars, watchVars, inputVars, chainVars, turnVars,
          envVars, callVars, extVars, lockVars>>

\* what the actions of one component leave alone
NonRing == <<sessVars, watchVars, inputVars, chainVars, turnVars, envVars, callVars, extVars, lockVars>>
NonSess == <<ringVars, watchVars, inputVars, chainVars, turnVars, envVars, callVars, extVars, lockVars>>
NonWatch == <<ringVars, sessVars, inputVars, chainVars, turnVars, envVars, callVars, extVars, lockVars>>
NonInput == <<ringVars, sessVars, watchVars, chainVars, turnVars, envVars, callVars, extVars, lockVars>>
NonChain == <<ringVars, sessVars, watchVars, inputVars, turnVars, envVars, callVars, extVars, lockVars>>
NonTurn == <<ringVars, sessVars, watchVars, inputVars, envVars, callVars, extVars, lockVars>>
NonEnv == <<ringVars, sessVars, watchVars, inputVars, chainVars, turnVars, callVars, extVars, lockVars>>
NonCall == <<ringVars, watchVars, inputVars, chainVars, turnVars, envVars, extVars, lockVars>>
NonExt == <<ringVars, sessVars, watchVars, inputVars, chainVars, turnVars, envVars, callVars, lockVars>>
NonLock == <<ringVars, sessVars, watchVars, inputVars, chainVars, turnVars, envVars, callVars, extVars>>

(***************************************************************************)
(* Bounds                                                                  *)
(***************************************************************************)
\* capacity of a ring buffer (NewRingBuffer(50000) in the program)
RingCap == 3
\* number of distinct byte values
NumBytes == 2
\* total number of bytes written to the ring buffer between two resets
MaxLog == 7

\* number of PTYSession objects constructed in one run
MaxObjs == 2
\* capacity of a session's output channel (make(chan []byte, 512) in the program)
OutputCap == 2
\* the most bytes one PTY read returns (4096 in the program)
MaxChunk == 2
\* the number of bytes a child writes in one run
MaxBytes == 4
\* maxBatchSize of WaitForOutput (32 * 1024 in the program)
MaxBatch == 3
\* the number of commands and messages the UI has outstanding at once
MaxTasks == 3

\* number of output frames handled in one run of the watcher
MaxFrames == 2
\* number of text atoms fed to the watcher in one run
MaxAtoms == 3
\* the last clock value
MaxTime == 8

\* number of key events typed into the terminal in one run
MaxKeys == 2

\* number of AppendConclusion calls in one run
MaxCalls == 3

\* number of terminals in the grid
MaxGrid == 3

\* length of a turn-sequence expression
MaxExpr == 5

\* number of items written in a sequence expression
MaxItems == 3

\* number of commands the App issues in one run
MaxCmds == 4

\* number of CreateSession calls in one run of the environment model
MaxCreates == 3

\* number of BuildCommand calls on one profile
MaxBuilds == 2
\* number of Write calls of one caller
MaxWrites == 2
\* the pieces a text handed to ExtractConclusion is built of
MaxPieces == 4

\* number of frames of a repeated line fed to the watcher in one run
MaxStorm == 5
\* the last clock value of such a run, in seconds
MaxClock == 28

Byte == 1..NumBytes
Projects == {"p1"}
Obj == 1..MaxObjs
\* the longest single write: one more than the capacity
MaxWrite == RingCap + 1

(***************************************************************************)
(* Sequence helpers                                                        *)
(***************************************************************************)
\* the last n elements of s (all of s when it is shorter)
Trailing(s, n) ==
    IF Len(s) <= n THEN s ELSE SubSeq(s, Len(s) - n + 1, Len(s))

\* all sequences over S of length lo..hi
SeqsOf(S, lo, hi) == UNION {[1..n -> S] : n \in lo..hi}

(***************************************************************************)
(* RingBuffer (buffer.go).  data is indexed 0..size-1 as the Go slice.     *)
(***************************************************************************)
NewRingBuffer(size) ==
    [data  |-> [i \in 0..(size - 1) |-> 0],
     size  |-> size,
     start |-> 0,
     end   |-> 0,
     full  |-> FALSE]

lenLocked(r) ==
    IF r.full THEN r.size
    ELSE IF r.end >= r.start THEN r.end - r.start
    ELSE r.size - r.start + r.end

\* copy(dst[at:], src): min(len(dst) - at, len(src)) elements are copied
CopyAt(data, size, at, src) ==
    [i \in 0..(size - 1) |->
        IF i >= at /\ i - at < Len(src) THEN src[i - at + 1] ELSE data[i]]

\* the write pointer after n < size bytes were copied in at r.end
WriteData(r, p) ==
    LET n == Len(p) IN
    IF r.end + n <= r.size
    THEN [r EXCEPT !.data = CopyAt(r.data, r.size, r.end, p),
                   !.end  = IF r.end + n = r.size THEN 0 ELSE r.end + n]
    ELSE LET firstPart == r.size - r.end IN
         [r EXCEPT !.data = CopyAt(CopyAt(r.data, r.size, r.end, SubSeq(p, 1, firstPart)),
                                   r.size, 0, SubSeq(p, firstPart + 1, n)),
                   !.end  = n - firstPart]

\* mutation of RingWrite: the overflow test is > instead of >=
RingWriteStrictOverflow(r, p) ==
    LET n == Len(p) IN
    IF n = 0 THEN r
    ELSE IF n >= r.size
    THEN [r EXCEPT !.data = CopyAt(r.data, r.size, 0, SubSeq(p, n - r.size + 1, n)),
                   !.start = 0, !.end = 0, !.full = TRUE]
    ELSE LET oldLen == lenLocked(r)
             w      == WriteData(r, p)
             newLen == oldLen + n
         IN  IF newLen > r.size
             THEN [w EXCEPT !.full = TRUE, !.start = w.end]
             ELSE w

RingWrite(r, p) ==
    LET n == Len(p) IN
    IF n = 0 THEN r
    ELSE IF n >= r.size
    THEN [r EXCEPT !.data = CopyAt(r.data, r.size, 0, SubSeq(p, n - r.size + 1, n)),
                   !.start = 0, !.end = 0, !.full = TRUE]
    ELSE LET oldLen == lenLocked(r)
             w      == WriteData(r, p)
             newLen == oldLen + n
         IN  IF newLen >= r.size
             THEN [w EXCEPT !.full = TRUE, !.start = w.end]
             ELSE w

\* data[lo:hi] as a sequence
Slice(data, lo, hi) == [i \in 1..(hi - lo) |-> data[lo + i - 1]]

RingBytes(r) ==
    IF r.start = r.end /\ ~r.full THEN <<>>
    ELSE IF r.full \/ r.end <= r.start
    THEN Slice(r.data, r.start, r.size) \o Slice(r.data, 0, r.end)
    ELSE Slice(r.data, r.start, r.end)

RingLen(r) == lenLocked(r)

RingReset(r) == [r EXCEPT !.start = 0, !.end = 0, !.full = FALSE]

\* mutation of WriteByte: the oldest byte is not given up when the buffer
\* is full
WriteByteKeepsStart(r, b) ==
    LET end == (r.end + 1) % r.size IN
    [r EXCEPT !.data[r.end] = b, !.end = end,
              !.full = r.full \/ end = r.start]

\* the body of the loop of the byte-at-a-time Write, for the byte b
WriteByte(r, b) ==
    LET end   == (r.end + 1) % r.size
        start == IF r.full THEN (r.start + 1) % r.size ELSE r.start
    IN  [r EXCEPT !.data[r.end] = b, !.end = end, !.start = start,
                  !.full = r.full \/ end = start]

\* the byte-at-a-time Write: for _, b := range p
RECURSIVE WriteEach(_, _)
WriteEach(r, p) ==
    IF p = <<>> THEN r ELSE WriteEach(WriteByte(r, Head(p)), Tail(p))

(***************************************************************************)
(* PTYSession (session.go).  A session object is a record:                 *)
(*   id      the project id                                                *)
(*   status  "idle", "running", "stopped", "error" ("none": not built yet) *)
(*   done    TRUE once the done channel is closed                          *)
(*   ptmx    "nil", "open", "closed"                                       *)
(*   child   "none", "alive", "exited": the process behind pCmd            *)
(*   output  the chunks queued in the output channel                       *)
(*   closes  how many times close(output) ran                              *)
(*   rl, rlData   position of readLoop and the chunk it holds              *)
(*   wl      position of waitLoop                                          *)
(*   buffer  the RingBuffer                                                *)
(*   nread   number of bytes readLoop has read from the PTY; the child     *)
(*           writes the bytes 1, 2, 3, ... so the bytes read so far are    *)
(*           1..nread                                                      *)
(*   stops   1 once a Stop() call has returned                             *)
(*   panic   TRUE once a loop closed the closed output channel or sent on  *)
(*           it                                                            *)
(*   size    <<cols, rows>> of the PTY, <<0, 0>> before it exists          *)
(*   taken   the bytes WaitForOutput commands received from the output     *)
(*           channel, in the order of the receives                         *)
(*   stoppedMsgs  number of SessionStoppedMsg of this session's channel    *)
(*           the UI loop has handled                                       *)
(***************************************************************************)
NoSession ==
    [id |-> "", status |-> "none", done |-> FALSE, ptmx |-> "nil",
     child |-> "none", output |-> <<>>, closes |-> 0,
     rl |-> "none", rlData |-> <<>>, wl |-> "none",
     buffer |-> NewRingBuffer(RingCap), nread |-> 0, stops |-> 0,
     panic |-> FALSE, size |-> <<0, 0>>, taken |-> <<>>, stoppedMsgs |-> 0]

NewPTYSession(id) == [NoSession EXCEPT !.id = id, !.status = "idle"]

\* initialCols, initialRows of a session whose size was never set
initialCols == 80
initialRows == 24
InitialSize == <<initialCols, initialRows>>

\* the dimensions a caller passes to Resize
Dims == {0, 2}

\* what the PTY of the platform does with a window size: any size with a
\* zero may be refused or taken, the others are taken
PtyAnswers(rows, cols) ==
    IF rows = 0 \/ cols = 0 THEN {"taken", "refused"} ELSE {"taken"}

\* what Resize returns and the session after it
SessResize(s, rows, cols, answer) ==
    IF s.ptmx = "nil" THEN [err |-> "pty not initialized", s |-> s]
    ELSE IF s.ptmx = "closed" THEN [err |-> "file already closed", s |-> s]
    ELSE IF answer = "refused" THEN [err |-> "invalid size", s |-> s]
    ELSE [err |-> "", s |-> [s EXCEPT !.size = <<cols, rows>>]]

\* the outcomes of the PTY facility during Start
StartOutcomes == {"ok", "ptyfail", "nocommand", "startfail"}

\* Start returns nil
StartOk(s, outcome) == s.status # "running" /\ outcome = "ok"

\* the session after Start
SessStart(s, outcome) ==
    IF s.status = "running" THEN s
    ELSE IF outcome = "ptyfail" THEN [s EXCEPT !.status = "error"]
    ELSE IF outcome = "nocommand"
    THEN [s EXCEPT !.ptmx = "open", !.size = InitialSize]
    ELSE IF outcome = "startfail"
    THEN [s EXCEPT !.ptmx = "open", !.size = InitialSize, !.status = "error"]
    ELSE [s EXCEPT !.ptmx = "open", !.size = InitialSize, !.child = "alive",
                   !.status = "running", !.rl = "select", !.wl = "wait"]

\* the session after Stop: close(done) once, close the PTY, kill the child
SessStop(s) ==
    IF s.status # "running" THEN [s EXCEPT !.stops = 1]
    ELSE [s EXCEPT !.done = TRUE,
                   !.ptmx = IF s.ptmx # "nil" THEN "closed" ELSE s.ptmx,
                   !.child = IF s.child # "none" THEN "exited" ELSE s.child,
                   !.status = "stopped",
                   !.stops = 1]

\* mutation of SessWrite: the status is not looked at
SessWriteAnyStatus(s) ==
    IF s.ptmx = "nil" THEN [n |-> 0, err |-> "pty not initialized", sent |-> FALSE]
    ELSE IF s.ptmx = "closed" THEN [n |-> 0, err |-> "file already closed", sent |-> FALSE]
    ELSE [n |-> 1, err |-> "", sent |-> TRUE]

\* what Write returns and whether the bytes went to the PTY master
SessWrite(s) ==
    IF s.status # "running" THEN [n |-> 0, err |-> "session not running", sent |-> FALSE]
    ELSE IF s.ptmx = "nil" THEN [n |-> 0, err |-> "pty not initialized", sent |-> FALSE]
    ELSE IF s.ptmx = "closed" THEN [n |-> 0, err |-> "file already closed", sent |-> FALSE]
    ELSE [n |-> 1, err |-> "", sent |-> TRUE]

\* the bytes lo+1 .. lo+n the child wrote
ChildBytes(lo, n) == [i \in 1..n |-> lo + i]

\* every byte read from the PTY so far, in read order
ReadLog(s) == ChildBytes(0, s.nread)

History(s) == RingBytes(s.buffer)

Flatten(chunks) ==
    LET RECURSIVE F(_)
        F(q) == IF q = <<>> THEN <<>> ELSE Head(q) \o F(Tail(q))
    IN  F(chunks)

(***************************************************************************)
(* outputWatcher (internal/ui).  Output text is a sequence of atoms; an    *)
(* atom stands for the bytes the patterns of the watcher look for:         *)
(*   "nl" "\n"   "cr" "\r"   "bel" 0x07   "esc" 0x1b   "]"   "\\"   ";"     *)
(*   "yn"   [y/N]                    "run"  do you want to run             *)
(*   "cmd"  command                  "rm"   rm -rf /                       *)
(*   "err"  Error:                   "done" task complete                  *)
(*   "9", "777", "notify"            the words of an OSC notification      *)
(*   "sp"   a space                  "x"    any other text                 *)
(***************************************************************************)
oscTailLimit == 2048
textTailLimit == 4096
\* tailLines(combined, 12)
tailLinesMax == 12
\* cooldown of shouldAutoReply, in seconds
autoReplyCooldown == 8
\* cooldown of shouldFire, in seconds
fireCooldown == 12
\* shouldFire prunes lastEvents when it has more entries than this
lastEventsLimit == 128

Has(text, a) == \E i \in 1..Len(text) : text[i] = a

\* index of the first a in text at or after from, 0 when there is none
IndexFrom(text, a, from) ==
    IF \E i \in from..Len(text) : text[i] = a
    THEN CHOOSE i \in from..Len(text) :
            text[i] = a /\ \A j \in from..(i - 1) : text[j] # a
    ELSE 0

\* strings.Split(text, sep) for a one-atom separator
Split(text, sep) ==
    LET RECURSIVE S(_, _)
        S(from, acc) ==
            LET i == IndexFrom(text, sep, from) IN
            IF i = 0 THEN Append(acc, SubSeq(text, from, Len(text)))
            ELSE S(i + 1, Append(acc, SubSeq(text, from, i - 1)))
    IN  S(1, <<>>)

\* strings.Join(parts[from:], sep)
JoinFrom(parts, from, sep) ==
    LET RECURSIVE J(_)
        J(i) == IF i > Len(parts) THEN <<>>
                ELSE IF i = Len(parts) THEN parts[i]
                ELSE parts[i] \o <<sep>> \o J(i + 1)
    IN  J(from)

\* strings.TrimSpace: leading and trailing "sp" atoms are dropped
TrimSpace(line) ==
    LET ix == {i \in 1..Len(line) : line[i] # "sp"} IN
    IF ix = {} THEN <<>>
    ELSE SubSeq(line, CHOOSE i \in ix : \A j \in ix : i <= j,
                      CHOOSE i \in ix : \A j \in ix : j <= i)

\* reInputRequired
MatchInputRequired(line) == Has(line, "yn")

\* reCommandApproval: "do you want to run", or "command" followed by [y/N]
MatchCommandApproval(line) ==
    \/ Has(line, "run")
    \/ \E i \in 1..Len(line) : \E j \in (i + 1)..Len(line) :
            line[i] = "cmd" /\ line[j] = "yn"

\* reError
MatchError(line) == Has(line, "err")

\* reCompleted
MatchCompleted(line) == Has(line, "done")

\* reVibeNotify, reNotifyLine: the line starts with "notify", a separator
\* and a message
MatchNotifyLine(line) == Len(line) >= 3 /\ line[1] = "notify" /\ line[2] = "sp"

\* ansi.Strip: escape sequences are removed, control characters stay
StripAnsi(text) ==
    LET RECURSIVE G(_, _)
        G(i, state) ==
            IF i > Len(text) THEN <<>>
            ELSE IF state = "ground"
            THEN IF text[i] = "esc" THEN G(i + 1, "escape")
                 ELSE <<text[i]>> \o G(i + 1, "ground")
            ELSE IF state = "escape"
            THEN IF text[i] = "]" THEN G(i + 1, "osc")
                 ELSE IF text[i] = "esc" THEN G(i + 1, "escape")
                 ELSE G(i + 1, "ground")
            ELSE IF text[i] = "bel" THEN G(i + 1, "ground")
                 ELSE IF text[i] = "esc" THEN G(i + 1, "escape")
                 ELSE G(i + 1, "osc")
    IN  G(1, "ground")

ReplaceCr(text) == [i \in 1..Len(text) |-> IF text[i] = "cr" THEN "nl" ELSE text[i]]

trimTail(text, limit) ==
    IF limit <= 0 \/ Len(text) <= limit THEN text
    ELSE SubSeq(text, Len(text) - limit + 1, Len(text))

tailLines(text, max) ==
    LET lines == Split(text, "nl") IN
    IF Len(lines) <= max THEN lines
    ELSE SubSeq(lines, Len(lines) - max + 1, Len(lines))

Event(type, title, message) == [type |-> type, title |-> title, message |-> message]

decodeOscNotification(content) ==
    LET parts == Split(content, ";") IN
    IF TrimSpace(parts[1]) = <<"9">>
    THEN LET msg == TrimSpace(JoinFrom(parts, 2, ";")) IN
         IF msg = <<>> THEN <<>> ELSE <<Event("notify", <<"Notification">>, msg)>>
    ELSE IF TrimSpace(parts[1]) = <<"777">>
    THEN IF Len(parts) >= 3 /\ TrimSpace(parts[2]) = <<"notify">>
         THEN LET title == TrimSpace(parts[3])
                  msg   == IF Len(parts) > 3 THEN TrimSpace(JoinFrom(parts, 4, ";"))
                           ELSE <<>>
              IN  IF msg = <<>> /\ title = <<>> THEN <<>>
                  ELSE <<Event("notify", title, msg)>>
         ELSE <<>>
    ELSE <<>>

\* oscTerminator with 1-based positions: [end, termLen], end = 0 for none
oscTerminator(input, start) ==
    IF start > Len(input) THEN [end |-> 0, termLen |-> 0]
    ELSE LET bel == IndexFrom(input, "bel", start)
             sts == {i \in start..(Len(input) - 1) :
                        input[i] = "esc" /\ input[i + 1] = "\\"}
             st  == IF sts = {} THEN 0
                    ELSE CHOOSE i \in sts : \A j \in sts : i <= j
         IN  IF bel = 0 /\ st = 0 THEN [end |-> 0, termLen |-> 0]
             ELSE IF bel # 0 /\ (st = 0 \/ bel < st) THEN [end |-> bel, termLen |-> 1]
             ELSE [end |-> st, termLen |-> 2]

\* [events, tail]
extractOscNotifications(input) ==
    LET RECURSIVE X(_, _)
        X(i, events) ==
            IF i > Len(input) THEN [events |-> events, tail |-> <<>>]
            ELSE IF input[i] # "esc" \/ i + 1 > Len(input) \/ input[i + 1] # "]"
            THEN X(i + 1, events)
            ELSE LET t == oscTerminator(input, i + 2) IN
                 IF t.end = 0
                 THEN [events |-> events, tail |-> SubSeq(input, i, Len(input))]
                 ELSE X(t.end + t.termLen,
                        events \o decodeOscNotification(SubSeq(input, i + 2, t.end - 1)))
    IN  X(1, <<>>)

newOutputWatcher ==
    [oscTail |-> <<>>, textTail |-> <<>>,
     lastEvents |-> <<>>, pendingAutoReply |-> ""]

\* mutation of shouldAutoApprove: level safe approves too
shouldAutoApproveSafeToo(lv) == lv \in {"safe", "vibe", "yolo"}

shouldAutoApprove(lv) == lv \in {"vibe", "yolo"}

\* the map m with key k set to v
MapPut(m, k, v) == [x \in (DOMAIN m) \cup {k} |-> IF x = k THEN v ELSE m[x]]

\* shouldAutoReply at time t: [ok, w]
shouldAutoReply(w, line, t) ==
    LET key == <<"autoapprove", <<>>, line>> IN
    IF key \in DOMAIN w.lastEvents /\ t - w.lastEvents[key] < autoReplyCooldown
    THEN [ok |-> FALSE, w |-> w]
    ELSE [ok |-> TRUE, w |-> [w EXCEPT !.lastEvents = MapPut(@, key, t)]]

\* mutation of shouldFire: the cooldown of shouldAutoReply is used
shouldFireShortCooldown(w, ev, t) ==
    LET key == <<ev.type, ev.title, ev.message>> IN
    IF key \in DOMAIN w.lastEvents /\ t - w.lastEvents[key] < autoReplyCooldown
    THEN [ok |-> FALSE, w |-> w]
    ELSE [ok |-> TRUE, w |-> [w EXCEPT !.lastEvents = MapPut(@, key, t)]]

\* shouldFire at time t: [ok, w]
shouldFire(w, ev, t) ==
    LET key == <<ev.type, ev.title, ev.message>> IN
    IF key \in DOMAIN w.lastEvents /\ t - w.lastEvents[key] < fireCooldown
    THEN [ok |-> FALSE, w |-> w]
    ELSE LET put == MapPut(w.lastEvents, key, t)
             kept == IF Cardinality(DOMAIN put) > lastEventsLimit
                     THEN [k \in {x \in DOMAIN put : ~(t - put[x] > fireCooldown)} |-> put[k]]
                     ELSE put
         IN  [ok |-> TRUE, w |-> [w EXCEPT !.lastEvents = kept]]

\* appendEventIfNew on the state st = [w, events, staged] of one Process call
appendEventIfNew(st, ev, t) ==
    LET f == shouldFire(st.w, ev, t) IN
    IF f.ok THEN [st EXCEPT !.w = f.w, !.events = Append(@, ev)]
    ELSE [st EXCEPT !.w = f.w]

\* the body of the loop over the lines; staged records the lines an
\* auto-reply was staged for
ProcessLine(st, raw, lv, t) ==
    LET line == TrimSpace(raw) IN
    IF line = <<>> THEN st
    ELSE LET try == shouldAutoReply(st.w, line, t)
             st1 == IF /\ shouldAutoApprove(lv) /\ st.w.pendingAutoReply = ""
                       /\ MatchInputRequired(line) /\ MatchCommandApproval(line)
                    THEN IF try.ok
                         THEN [st EXCEPT !.w = [try.w EXCEPT !.pendingAutoReply = "y\r"],
                                         !.staged = Append(@, line)]
                         ELSE [st EXCEPT !.w = try.w]
                    ELSE st
         IN  IF MatchInputRequired(line)
             THEN appendEventIfNew(st1, Event("input_required", <<"Input required">>, line), t)
             ELSE IF MatchError(line)
             THEN appendEventIfNew(st1, Event("error", <<"Error">>, line), t)
             ELSE IF MatchCompleted(line)
             THEN appendEventIfNew(st1, Event("task_completed", <<"Task completed">>, line), t)
             ELSE IF MatchNotifyLine(line)
             THEN appendEventIfNew(st1, Event("notify", <<"Notification">>, TrimSpace(Tail(line))), t)
             ELSE st1

\* outputWatcher.Process at time t: [w, events, staged]
Process(w, lv, data, t) ==
    IF data = <<>> THEN [w |-> w, events |-> <<>>, staged |-> <<>>]
    ELSE
    LET input == w.oscTail \o data
        osc   == extractOscNotifications(input)
        RECURSIVE FireAll(_, _)
        FireAll(st, evs) ==
            IF evs = <<>> THEN st
            ELSE FireAll(appendEventIfNew(st, Head(evs), t), Tail(evs))
        st0   == FireAll([w |-> [w EXCEPT !.oscTail = trimTail(osc.tail, oscTailLimit)],
                          events |-> <<>>, staged |-> <<>>], osc.events)
        plain == ReplaceCr(StripAnsi(data))
        combined == w.textTail \o plain
        RECURSIVE Lines(_, _)
        Lines(st, ls) ==
            IF ls = <<>> THEN st
            ELSE Lines(ProcessLine(st, Head(ls), lv, t), Tail(ls))
        st1   == IF plain = <<>> THEN st0
                 ELSE Lines([st0 EXCEPT !.w.textTail = trimTail(combined, textTailLimit)],
                            tailLines(combined, tailLinesMax))
    IN  IF Has(input, "bel")
        THEN appendEventIfNew(st1, Event("notify", <<"Bell">>, <<"Terminal bell">>), t)
        ELSE st1

(***************************************************************************)
(* Key input (internal/ui): IMEBuffer, App.handleTerminalKeys, keyToBytes, *)
(* the IMEFlushMsg handler.  A rune is its code point, a byte a number.    *)
(***************************************************************************)
Terms == {"A", "B"}

\* the runes typed: n, i, 1, and the IME commit of two CJK characters
RuneN == 110
RuneI == 105
Rune1 == 49
RuneNi3 == 20320
RuneHao3 == 22909
ESC == 27
CR == 13

\* []byte(string(runes)): the UTF-8 encoding of runes below 0x10000
Utf8(r) ==
    IF r < 128 THEN <<r>>
    ELSE IF r < 2048 THEN <<192 + (r \div 64), 128 + (r % 64)>>
    ELSE <<224 + (r \div 4096), 128 + ((r \div 64) % 64), 128 + (r % 64)>>

RECURSIVE BytesOf(_)
BytesOf(runes) ==
    IF runes = <<>> THEN <<>> ELSE Utf8(Head(runes)) \o BytesOf(Tail(runes))

NewIMEBuffer == [buffer |-> <<>>, targetID |-> ""]

isLikelyIMEPreedit(runes) ==
    /\ Len(runes) > 0
    /\ \A i \in 1..Len(runes) : runes[i] >= 97 /\ runes[i] <= 122

\* mutation of ProcessRunes: a non-ASCII rune flushes the preedit before it
ProcessRunesCommitFlushes(b, runes) ==
    IF isLikelyIMEPreedit(runes)
    THEN [b |-> [b EXCEPT !.buffer = @ \o runes], output |-> <<>>,
          arm |-> TRUE, shouldFlushFirst |-> FALSE]
    ELSE [b |-> b, output |-> BytesOf(runes), arm |-> FALSE,
          shouldFlushFirst |-> Len(b.buffer) > 0]

\* IMEBuffer.ProcessRunes: [b, output, arm, shouldFlushFirst]; arm says that
\* scheduleFlush returned a timer
ProcessRunes(b, runes) ==
    IF Len(runes) = 0
    THEN [b |-> b, output |-> <<>>, arm |-> FALSE, shouldFlushFirst |-> FALSE]
    ELSE IF \E i \in 1..Len(runes) : runes[i] > 127
    THEN [b |-> [b EXCEPT !.buffer = <<>>], output |-> BytesOf(runes),
          arm |-> FALSE, shouldFlushFirst |-> FALSE]
    ELSE IF isLikelyIMEPreedit(runes)
    THEN [b |-> [b EXCEPT !.buffer = @ \o runes], output |-> <<>>,
          arm |-> TRUE, shouldFlushFirst |-> FALSE]
    ELSE [b |-> b, output |-> BytesOf(runes), arm |-> FALSE,
          shouldFlushFirst |-> Len(b.buffer) > 0]

\* mutation of ImeFlush: the buffer keeps its content
ImeFlushKeeps(b) == [b |-> b, output |-> BytesOf(b.buffer)]

\* IMEBuffer.Flush: [b, output]
ImeFlush(b) == [b |-> [b EXCEPT !.buffer = <<>>], output |-> BytesOf(b.buffer)]

\* IMEBuffer.SetTarget
SetTarget(b, id) == [b EXCEPT !.targetID = id]

\* a key event: KeyRunes with its runes, or KeyEnter, or a key that
\* keyToBytes has no bytes for (KeyF1)
Key(type, runes, alt) == [type |-> type, runes |-> runes, alt |-> alt]

keyToBytes(k) ==
    LET base == IF k.type = "runes" THEN BytesOf(k.runes)
                ELSE IF k.type = "enter" THEN <<CR>>
                ELSE <<>>
    IN  IF base = <<>> THEN <<>>
        ELSE IF k.alt THEN <<ESC>> \o base
        ELSE base

NewApp ==
    [inputMode |-> "control", dispatchMode |-> "solo", activeTermID |-> "",
     imeBuffer |-> NewIMEBuffer]

NoKey ==
    [key |-> Key("none", <<>>, FALSE), mode |-> "solo", target |-> "",
     held |-> <<>>, sent |-> <<>>, to |-> {}, before |-> <<>>, running |-> {}]

\* nothing has been typed: a component that runs without the keyboard
InputOff ==
    /\ app = NewApp
    /\ timers = EmptyBag
    /\ alive = {}
    /\ stdin = [t \in Terms |-> <<>>]
    /\ origin = <<>>
    /\ lastKey = NoKey
    /\ keyLog = <<>>
    /\ trail = [moved |-> FALSE, leak |-> {}]

(***************************************************************************)
(* ChainContext (internal/runtime/chain.go).  The file is a sequence of    *)
(* JSON tokens; an entry is written as "{", agent, conclusion, "}".        *)
(***************************************************************************)
Calls == 1..MaxCalls
Agents == {"A", "B"}
Conclusions == {"c1", "c2"}

ChainEntry(agent, conclusion) == [agent |-> agent, conclusion |-> conclusion]

\* json.MarshalIndent of the chain
RECURSIVE MarshalEntries(_)
MarshalEntries(entries) ==
    IF entries = <<>> THEN <<>>
    ELSE <<"{", Head(entries).agent, Head(entries).conclusion, "}">>
            \o MarshalEntries(Tail(entries))

Marshal(entries) == <<"[">> \o MarshalEntries(entries) \o <<"]">>

\* json.Unmarshal of the file: [ok, entries]
Unmarshal(file) ==
    LET n == Len(file)
        k == (n - 2) \div 4
        wellFormed ==
            /\ n >= 2 /\ (n - 2) % 4 = 0
            /\ file[1] = "[" /\ file[n] = "]"
            /\ \A i \in 0..(k - 1) :
                  /\ file[2 + 4 * i] = "{" /\ file[5 + 4 * i] = "}"
                  /\ file[3 + 4 * i] \in Agents
                  /\ file[4 + 4 * i] \in Conclusions
    IN  IF wellFormed
        THEN [ok |-> TRUE,
              entries |-> [i \in 1..k |->
                              ChainEntry(file[3 + 4 * (i - 1)], file[4 + 4 * (i - 1)])]]
        ELSE [ok |-> FALSE, entries |-> <<>>]

\* a write of data at offset 0 of a file
WriteAt0(file, data) ==
    data \o SubSeq(file, Len(data) + 1, Len(file))

\* NewChainContext, and no call yet; the file does not exist
NewChainContext ==
    [task |-> "draft", mem |-> <<>>, readers |-> {}, file |-> <<>>,
     pc |-> [c \in Calls |-> "idle"], snap |-> [c \in Calls |-> <<>>],
     seen |-> <<>>]

ChainOff == chain = NewChainContext

\* mutation of CanLock: c.mu.Lock does not wait for the readers
CanLockAnyway(ch) == TRUE

\* c.mu.Lock() can be taken: nobody holds the read lock
CanLock(ch) == ch.readers = {}

(***************************************************************************)
(* FormatContext (internal/runtime/chain.go) and the turn sequence         *)
(* (internal/ui/logic_turn.go).  A sequence expression is a sequence of    *)
(* characters: digits, ",", "-" and "sp"; a prompt is a sequence of atoms. *)
(***************************************************************************)
ChainPromptHeader == "Based on the above context, please continue."
ChainMarker == ":::VIBE_OUTPUT:::"
ChainPromptInstruction ==
    <<"IMPORTANT: Please start your output with", ChainMarker,
      "so I can extract it reliably.">>

RECURSIVE FormatEntries(_)
FormatEntries(entries) ==
    IF entries = <<>> THEN <<>>
    ELSE <<"--- Agent:", Head(entries).agent, "---", Head(entries).conclusion>>
            \o FormatEntries(Tail(entries))

FormatContext(ch) ==
    <<"[Chain Context]", "Task:", ch.task>> \o FormatEntries(ch.mem)
        \o <<ChainPromptHeader>> \o ChainPromptInstruction

\* the "Your Turn" message of sendCurrentTurn
TurnPrompt(filename) ==
    <<"[SYSTEM] your turn, read file", filename, "and produce the output">>

\* sub occurs in text
ContainsSeq(text, sub) ==
    \E i \in 0..(Len(text) - Len(sub)) : SubSeq(text, i + 1, i + Len(sub)) = sub

IdNames == <<"A", "B", "C", "D", "E">>
DigitChars == <<"0", "1", "2", "3", "4", "5", "6", "7", "8", "9">>

\* the grids of gridOrder: the first n terminals
Grids == {[i \in 1..n |-> IdNames[i]] : n \in 1..MaxGrid}

DigitValue(c) == (CHOOSE d \in 1..Len(DigitChars) : DigitChars[d] = c) - 1

IsDigit(c) == \E d \in 1..Len(DigitChars) : DigitChars[d] = c

\* strconv.Atoi of an unsigned decimal: [ok, val]
Atoi(str) ==
    LET RECURSIVE V(_, _)
        V(i, acc) == IF i > Len(str) THEN acc
                     ELSE V(i + 1, 10 * acc + DigitValue(str[i]))
    IN  IF str # <<>> /\ \A i \in 1..Len(str) : IsDigit(str[i])
        THEN [ok |-> TRUE, val |-> V(1, 0)]
        ELSE [ok |-> FALSE, val |-> 0]

\* mutation of IndexIDs: the index is taken as 1-based
IndexIDsOneBased(idx, gridIDs) ==
    IF idx >= 1 /\ idx <= Len(gridIDs) THEN <<gridIDs[idx]>> ELSE <<>>

\* lines 40-42 and 50-52: gridIDs[idx] when idx is in range
IndexIDs(idx, gridIDs) ==
    IF idx >= 0 /\ idx < Len(gridIDs) THEN <<gridIDs[idx + 1]>> ELSE <<>>

\* lines 39-43: for i := start; i <= end; i++; the iterations past the grid
\* append nothing and are not unfolded
RECURSIVE RangeIDs(_, _, _)
RangeIDs(i, end, gridIDs) ==
    IF i > end \/ i > Len(gridIDs) THEN <<>>
    ELSE IndexIDs(i, gridIDs) \o RangeIDs(i + 1, end, gridIDs)

\* lines 27-54: what one part of the expression contributes
PartIDs(rawPart, gridIDs) ==
    LET part == TrimSpace(rawPart) IN
    IF part = <<>> THEN <<>>
    ELSE IF Has(part, "-")
    THEN LET rangeParts == Split(part, "-") IN
         IF Len(rangeParts) = 2
         THEN LET start == Atoi(TrimSpace(rangeParts[1]))
                  end == Atoi(TrimSpace(rangeParts[2]))
              IN  IF start.ok /\ end.ok /\ start.val <= end.val
                  THEN RangeIDs(start.val, end.val, gridIDs)
                  ELSE <<>>
         ELSE <<>>
    ELSE LET idx == Atoi(part) IN
         IF idx.ok THEN IndexIDs(idx.val, gridIDs) ELSE <<>>

parseTurnSequence(input, gridIDs) ==
    IF input = <<>> THEN gridIDs
    ELSE LET parts == Split(input, ",")
             RECURSIVE R(_)
             R(i) == IF i > Len(parts) THEN <<>>
                     ELSE PartIDs(parts[i], gridIDs) \o R(i + 1)
             resultIDs == R(1)
         IN  IF resultIDs = <<>> THEN gridIDs ELSE resultIDs

NoLast == [op |-> "", before |-> 0, len |-> 0, issued |-> {}]

\* the App's turn fields after New, over a grid whose sessions all run
NewTurn(grid, expr) ==
    [grid |-> grid, expr |-> expr, parsed |-> FALSE,
     turnSequence |-> <<>>, currentSeqIndex |-> 0, autoTurnEnabled |-> FALSE,
     turnFilename |-> "", statusMsg |-> "", activeTermID |-> "",
     running |-> {grid[i] : i \in 1..Len(grid)},
     cmds |-> {}, issued |-> 0,
     sent |-> [i \in 1..Len(grid) |-> <<>>],
     runs |-> <<>>, last |-> NoLast, panicked |-> FALSE,
     written |-> <<>>, asWritten |-> FALSE]

TurnOff == turn = NewTurn(<<"A">>, <<>>)

\* lines 65-72
initAutoTurn(t, sequenceStr) ==
    [t EXCEPT !.expr = sequenceStr, !.parsed = TRUE,
              !.turnSequence = parseTurnSequence(sequenceStr, t.grid),
              !.currentSeqIndex = 0,
              !.autoTurnEnabled = FALSE,
              !.statusMsg = "Roles assigned. Press Alt+A to start auto-turn."]

\* mutation of TurnTarget: the head of the sequence
TurnTargetFirst(t) == t.turnSequence[1]

\* line 107
TurnTarget(t) == t.turnSequence[t.currentSeqIndex + 1]

\* the command of lines 114-128, with the context a chain prompt would carry
TurnCmd(t, ch) ==
    [kind |-> "turn", n |-> t.issued + 1, target |-> TurnTarget(t),
     step |-> 1, want |-> FormatContext(ch)]

\* lines 102-136
sendCurrentTurn(t, ch) ==
    IF Len(t.turnSequence) = 0 \/ t.currentSeqIndex >= Len(t.turnSequence)
    THEN t
    ELSE [t EXCEPT !.activeTermID = TurnTarget(t),
                   !.cmds = @ \cup {TurnCmd(t, ch)},
                   !.issued = @ + 1]

\* lines 164-188: the read of turnSequence[currentSeqIndex] is out of range
updateTurnStatusPanics(t) ==
    /\ t.autoTurnEnabled
    /\ Len(t.turnSequence) > 0
    /\ t.currentSeqIndex >= Len(t.turnSequence)

GridPos(grid, id) == CHOOSE i \in 1..Len(grid) : grid[i] = id

(***************************************************************************)
(* Environment overlays (engine.go CreateSession, driver/native.go).  An   *)
(* overlay is a Go map: isNil, and vars, a function from its keys to their *)
(* values.  A value and an element of an environment list are tuples.      *)
(***************************************************************************)
EnvProjects == {"p1", "p2"}
ProfObjs == {"prA", "prB"}

ConfigDirKey == "CLAUDE_CONFIG_DIR"
UserKeys == {ConfigDirKey, "TERM", "FOO"}

\* the value a user gives to a key
UserValue(k) == <<"user", k>>

EmptyVars == [k \in {} |-> <<>>]

\* the overlays a profile can carry: nil, or any keys with the user's values
UserOverlays ==
    {[isNil |-> TRUE, vars |-> EmptyVars]}
        \cup {[isNil |-> FALSE, vars |-> [k \in S |-> UserValue(k)]] : S \in SUBSET UserKeys}

\* line 78: the per-project directory sessions/<project.ID>
sessionConfigDir(p) == <<"sessions", p>>

\* lines 84-100: the overlay CreateSession leaves in profile.EnvVars
InjectConfigDir(overlay, p) ==
    LET copy == IF overlay.isNil THEN EmptyVars ELSE overlay.vars IN
    [isNil |-> FALSE,
     vars |-> IF ConfigDirKey \in DOMAIN copy THEN copy
              ELSE [k \in (DOMAIN copy) \cup {ConfigDirKey} |->
                       IF k = ConfigDirKey THEN sessionConfigDir(p) ELSE copy[k]]]

\* the orders in which a range over a map with these keys can visit them
Orderings(keys) ==
    {f \in [1..Cardinality(keys) -> keys] :
        \A i, j \in 1..Cardinality(keys) : i # j => f[i] # f[j]}

\* native.go lines 42-65: the argv of a command line given as its words
BuildArgv(words, claudePath, codexPath) ==
    LET parts == IF words = <<>> THEN <<"claude">> ELSE words
        command == IF parts[1] = "claude" /\ claudePath # "" THEN claudePath
                   ELSE IF parts[1] = "codex" /\ codexPath # "" THEN codexPath
                   ELSE parts[1]
    IN  <<command>> \o Tail(parts)

\* native.go lines 87-92: an element starts with NODE_OPTIONS
HasNodeOptions(list) == \E i \in 1..Len(list) : list[i][1] = "NODE_OPTIONS"

\* native.go lines 72-96: the environment list, the map visited in this order
BuildEnv(osenv, overlay, order) ==
    LET merged == osenv \o [i \in 1..Len(order) |-> <<order[i]>> \o overlay.vars[order[i]]]
        termed == IF "TERM" \in DOMAIN overlay.vars THEN merged
                  ELSE merged \o <<<<"TERM", "xterm-256color">>,
                                   <<"COLORTERM", "truecolor">>>>
    IN  IF HasNodeOptions(termed) THEN termed
        ELSE Append(termed, <<"NODE_OPTIONS", "--max-old-space-size=4096">>)

NoEnvCall ==
    [called |-> FALSE, project |-> "", profile |-> "", err |-> "",
     before |-> EmptyVars, after |-> EmptyVars]

\* an engine without sessions, profiles without overlays, nothing built
NewEnv(overlays) ==
    [user |-> overlays, prof |-> overlays,
     entry |-> [p \in EnvProjects |-> "none"],
     launches |-> <<>>, creates |-> 0, last |-> NoEnvCall,
     words |-> <<>>, claudePath |-> "", codexPath |-> "", osenv |-> <<>>,
     resolves |-> TRUE, built |-> <<>>]

EnvOff == env = NewEnv([pr \in ProfObjs |-> [isNil |-> TRUE, vars |-> EmptyVars]])

(***************************************************************************)
(* Initial values of each component                                        *)
(***************************************************************************)
RingInit ==
    /\ rb = NewRingBuffer(RingCap)
    /\ rbLog = <<>>
    /\ rbEach = NewRingBuffer(RingCap)

NoCreate ==
    [p |-> "", prev |-> 0, prevStatus |-> "none", obj |-> 0, err |-> "", fresh |-> FALSE]

NoWrite ==
    [status |-> "none", afterStop |-> FALSE, n |-> 0, err |-> "", sent |-> FALSE]

\* no Start, Resize or CloseSession call has been made
NoCall ==
    [op |-> "none", obj |-> 0, project |-> "", outcome |-> "", err |-> "",
     before |-> "none", after |-> "none", rows |-> 0, cols |-> 0,
     size |-> <<0, 0>>, sizeAfter |-> <<0, 0>>, had |-> 0, entry |-> 0]

CallOff == lastCall = NoCall

\* nothing has been extracted
NoExt == [text |-> <<>>, result |-> <<>>, done |-> FALSE]

ExtOff == ext = NoExt

\* the callers of Write on one session: the UI loop (a key, an auto-reply)
\* and the command of sendCurrentTurn
Callers == {"ui", "cmd"}

\* a running session nobody is calling; room: the PTY takes input without
\* blocking
NewLocks ==
    [status |-> "running", ptmx |-> "open", readers |-> {}, writer |-> "",
     pc |-> [c \in Callers |-> "idle"], calls |-> [c \in Callers |-> 0],
     engine |-> "", closer |-> "idle", entry |-> TRUE, room |-> TRUE]

LockOff == lk = NewLocks

SessInit ==
    /\ sess = [o \in Obj |-> NoSession]
    /\ nextObj = 1
    /\ sessions = [p \in Projects |-> 0]
    /\ tasks = EmptyBag
    /\ uiLog = [o \in Obj |-> <<>>]
    /\ lastCreate = NoCreate
    /\ lastWrite = NoWrite

\* no output has reached the watcher
WatchIdle ==
    /\ watcher = newOutputWatcher
    /\ now = 0
    /\ frames = <<>>
    /\ autoLog = <<>>
    /\ evLog = <<>>

\* a component that runs without the watcher
WatchOff == WatchIdle /\ level = "nil"

(***************************************************************************)
(* readLoop and waitLoop of session object o (session.go)                  *)
(***************************************************************************)
Built(o) == o \in Obj /\ o < nextObj

\* mutation of ReadChunk: the chunk is recorded only when the channel has room
ReadChunkHistoryIfRoom(s, n) ==
    LET data == ChildBytes(s.nread, n) IN
    [s EXCEPT !.rlData = data,
              !.nread  = s.nread + n,
              !.buffer = IF Len(s.output) < OutputCap
                         THEN RingWrite(s.buffer, data) ELSE s.buffer,
              !.rl     = "send"]

\* ptmx.Read returned n > 0 bytes: copy them, record them in the ring buffer
ReadChunk(s, n) ==
    LET data == ChildBytes(s.nread, n) IN
    [s EXCEPT !.rlData = data,
              !.nread  = s.nread + n,
              !.buffer = RingWrite(s.buffer, data),
              !.rl     = "send"]

\* select { case <-s.done: return; default: ... }
RlSelect(o) ==
    /\ Built(o) /\ sess[o].rl = "select"
    /\ sess' = [sess EXCEPT ![o].rl = IF sess[o].done THEN "exit" ELSE "read"]
    /\ UNCHANGED <<nextObj, sessions, tasks, uiLog, lastCreate, lastWrite, NonSess>>

RlReadData(o) ==
    /\ Built(o) /\ sess[o].rl = "read"
    /\ sess[o].ptmx = "open"
    /\ \E n \in 1..MaxChunk :
        /\ sess[o].nread + n <= MaxBytes
        /\ sess' = [sess EXCEPT ![o] = ReadChunk(sess[o], n)]
    /\ UNCHANGED <<nextObj, sessions, tasks, uiLog, lastCreate, lastWrite, NonSess>>

\* ptmx.Read failed: the PTY was closed or the child is gone
RlReadErr(o) ==
    /\ Built(o) /\ sess[o].rl = "read"
    /\ sess[o].ptmx = "closed" \/ sess[o].child = "exited"
    /\ sess' = [sess EXCEPT ![o].status = IF @ = "running" THEN "stopped" ELSE @,
                            ![o].rl = "close"]
    /\ UNCHANGED <<nextObj, sessions, tasks, uiLog, lastCreate, lastWrite, NonSess>>

RlClose(o) ==
    /\ Built(o) /\ sess[o].rl = "close"
    /\ sess' = IF sess[o].closes = 0
               THEN [sess EXCEPT ![o].closes = 1, ![o].rl = "exit"]
               ELSE [sess EXCEPT ![o].panic = TRUE, ![o].rl = "exit"]
    /\ UNCHANGED <<nextObj, sessions, tasks, uiLog, lastCreate, lastWrite, NonSess>>

\* first non-blocking send
RlSend(o) ==
    /\ Built(o) /\ sess[o].rl = "send"
    /\ sess' = IF sess[o].closes > 0
               THEN [sess EXCEPT ![o].panic = TRUE, ![o].rl = "exit"]
               ELSE IF Len(sess[o].output) < OutputCap
               THEN [sess EXCEPT ![o].output = Append(@, sess[o].rlData),
                                 ![o].rl = "select"]
               ELSE [sess EXCEPT ![o].rl = "drop"]
    /\ UNCHANGED <<nextObj, sessions, tasks, uiLog, lastCreate, lastWrite, NonSess>>

\* channel full: non-blocking receive of the oldest chunk
RlDrop(o) ==
    /\ Built(o) /\ sess[o].rl = "drop"
    /\ sess' = IF Len(sess[o].output) > 0
               THEN [sess EXCEPT ![o].output = Tail(@), ![o].rl = "resend"]
               ELSE [sess EXCEPT ![o].rl = "resend"]
    /\ UNCHANGED <<nextObj, sessions, tasks, uiLog, lastCreate, lastWrite, NonSess>>

\* second non-blocking send; the chunk is dropped when the channel is still full
RlResend(o) ==
    /\ Built(o) /\ sess[o].rl = "resend"
    /\ sess' = IF sess[o].closes > 0
               THEN [sess EXCEPT ![o].panic = TRUE, ![o].rl = "exit"]
               ELSE IF Len(sess[o].output) < OutputCap
               THEN [sess EXCEPT ![o].output = Append(@, sess[o].rlData),
                                 ![o].rl = "select"]
               ELSE [sess EXCEPT ![o].rl = "select"]
    /\ UNCHANGED <<nextObj, sessions, tasks, uiLog, lastCreate, lastWrite, NonSess>>

\* pCmd.Wait() returned
WlWait(o) ==
    /\ Built(o) /\ sess[o].wl = "wait"
    /\ sess[o].child = "exited"
    /\ sess' = [sess EXCEPT ![o].status = IF @ = "running" THEN "stopped" ELSE @,
                            ![o].wl = "done"]
    /\ UNCHANGED <<nextObj, sessions, tasks, uiLog, lastCreate, lastWrite, NonSess>>

\* the child exits on its own
ChildExit(o) ==
    /\ Built(o) /\ sess[o].child = "alive"
    /\ sess' = [sess EXCEPT ![o].child = "exited"]
    /\ UNCHANGED <<nextObj, sessions, tasks, uiLog, lastCreate, lastWrite, NonSess>>

\* Write called on session object o by any holder of the object
Write(o) ==
    /\ Built(o)
    /\ lastWrite' = [status |-> sess[o].status,
                     afterStop |-> sess[o].stops > 0,
                     n |-> SessWrite(sess[o]).n, err |-> SessWrite(sess[o]).err,
                     sent |-> SessWrite(sess[o]).sent]
    /\ UNCHANGED <<sess, nextObj, sessions, tasks, uiLog, lastCreate, NonSess>>

(***************************************************************************)
(* DefaultEngine (engine.go)                                               *)
(***************************************************************************)
\* what CreateSession can meet: the outcomes of Start, a missing project
\* path, a command the driver cannot build
CreateOutcomes == StartOutcomes \cup {"nopath", "buildfail"}

\* mutation of ExistingRunning: an entry is never reused
ExistingNeverReused(existing) == FALSE

\* the registry has an entry for the project and it is running
ExistingRunning(existing) ==
    existing # 0 /\ sess[existing].status = "running"

CreateSession(p, outcome) ==
    LET existing == sessions[p] IN
    IF ExistingRunning(existing)
    THEN /\ lastCreate' = [p |-> p, prev |-> existing,
                           prevStatus |-> sess[existing].status,
                           obj |-> existing, err |-> "", fresh |-> FALSE]
         /\ UNCHANGED <<sess, nextObj, sessions>>
    ELSE IF outcome \in {"nopath", "buildfail"}
    THEN /\ sessions' = [sessions EXCEPT ![p] = 0]
         /\ lastCreate' = [p |-> p, prev |-> existing,
                           prevStatus |-> IF existing = 0 THEN "none"
                                          ELSE sess[existing].status,
                           obj |-> 0, err |-> outcome, fresh |-> FALSE]
         /\ UNCHANGED <<sess, nextObj>>
    ELSE /\ nextObj <= MaxObjs
         /\ LET s == SessStart(NewPTYSession(p), outcome)
                ok == StartOk(NewPTYSession(p), outcome)
            IN  /\ sess' = [sess EXCEPT ![nextObj] = s]
                /\ sessions' = [sessions EXCEPT ![p] = IF ok THEN nextObj ELSE 0]
                /\ lastCreate' = [p |-> p, prev |-> existing,
                                  prevStatus |-> IF existing = 0 THEN "none"
                                                 ELSE sess[existing].status,
                                  obj |-> IF ok THEN nextObj ELSE 0,
                                  err |-> IF ok THEN "" ELSE outcome,
                                  fresh |-> ok]
         /\ nextObj' = nextObj + 1

\* mutation of CloseSession: the session is stopped, the entry stays
CloseSessionKeepsEntry(p) ==
    IF sessions[p] = 0
    THEN UNCHANGED <<sess, sessions>>
    ELSE /\ sess' = [sess EXCEPT ![sessions[p]] = SessStop(@)]
         /\ UNCHANGED sessions

CloseSession(p) ==
    IF sessions[p] = 0
    THEN UNCHANGED <<sess, sessions>>
    ELSE /\ sess' = [sess EXCEPT ![sessions[p]] = SessStop(@)]
         /\ sessions' = [sessions EXCEPT ![p] = 0]

(***************************************************************************)
(* The UI loop and its commands (app.go, update.go, messages.go)           *)
(***************************************************************************)
Task(kind, p, o, data) == [kind |-> kind, p |-> p, o |-> o, data |-> data]

Pending(kind) == {t \in BagToSet(tasks) : t.kind = kind}

Replace(t, new) == (tasks (-) SetToBag({t})) (+) new

\* mutation of waitForOutput: the handler never listens again
waitForOutputNever(p, reg) == EmptyBag

\* App.waitForOutput: a WaitForOutput command on the channel of the session
\* the engine has for p now, none when it has no entry
waitForOutput(p, reg) ==
    IF reg[p] = 0 THEN EmptyBag
    ELSE SetToBag({Task("wait", p, reg[p], <<>>)})

\* the command of App.startSession runs: CreateSession, then a message
RunStartSession(t) ==
    /\ t \in Pending("create")
    /\ \E outcome \in CreateOutcomes : CreateSession(t.p, outcome)
    /\ tasks' = Replace(t, SetToBag({
            IF lastCreate'.err = "" THEN Task("msgStarted", t.p, 0, <<>>)
            ELSE Task("msgError", t.p, 0, <<>>)}))
    /\ UNCHANGED <<uiLog, lastWrite, NonSess>>

\* WaitForOutput blocked for the first chunk: a chunk arrives
WaitFirst(t) ==
    /\ t \in Pending("wait")
    /\ Len(sess[t.o].output) > 0
    /\ sess' = [sess EXCEPT ![t.o].output = Tail(@),
                            ![t.o].taken = @ \o Head(sess[t.o].output)]
    /\ tasks' = Replace(t, SetToBag({Task("drain", t.p, t.o, Head(sess[t.o].output))}))
    /\ UNCHANGED <<nextObj, sessions, uiLog, lastCreate, lastWrite, NonSess>>

\* WaitForOutput blocked for the first chunk: the channel is closed and empty
WaitClosed(t) ==
    /\ t \in Pending("wait")
    /\ Len(sess[t.o].output) = 0 /\ sess[t.o].closes > 0
    /\ tasks' = Replace(t, SetToBag({Task("msgStopped", t.p, t.o, <<>>)}))
    /\ UNCHANGED <<sess, nextObj, sessions, uiLog, lastCreate, lastWrite, NonSess>>

\* mutation of WaitDrain: when the channel is found closed in the loop the
\* accumulated data is given up for SessionStoppedMsg
WaitDrainForgetsOnClose(t) ==
    /\ t \in Pending("drain")
    /\ IF Len(t.data) < MaxBatch /\ Len(sess[t.o].output) > 0
       THEN /\ sess' = [sess EXCEPT ![t.o].output = Tail(@),
                                   ![t.o].taken = @ \o Head(sess[t.o].output)]
            /\ tasks' = Replace(t, SetToBag({Task("drain", t.p, t.o,
                                        t.data \o Head(sess[t.o].output))}))
       ELSE /\ tasks' = Replace(t, SetToBag({
                    IF Len(t.data) < MaxBatch /\ sess[t.o].closes > 0
                    THEN Task("msgStopped", t.p, t.o, <<>>)
                    ELSE Task("msgOut", t.p, t.o, t.data)}))
            /\ UNCHANGED sess
    /\ UNCHANGED <<nextObj, sessions, uiLog, lastCreate, lastWrite, NonSess>>

\* one round of the batching loop of WaitForOutput
WaitDrain(t) ==
    /\ t \in Pending("drain")
    /\ IF Len(t.data) < MaxBatch /\ Len(sess[t.o].output) > 0
       THEN /\ sess' = [sess EXCEPT ![t.o].output = Tail(@),
                                   ![t.o].taken = @ \o Head(sess[t.o].output)]
            /\ tasks' = Replace(t, SetToBag({Task("drain", t.p, t.o,
                                        t.data \o Head(sess[t.o].output))}))
       ELSE /\ tasks' = Replace(t, SetToBag({Task("msgOut", t.p, t.o, t.data)}))
            /\ UNCHANGED sess
    /\ UNCHANGED <<nextObj, sessions, uiLog, lastCreate, lastWrite, NonSess>>

\* App.Update, SessionStartedMsg
UiSessionStarted(t) ==
    /\ t \in Pending("msgStarted")
    /\ tasks' = Replace(t, waitForOutput(t.p, sessions))
    /\ UNCHANGED <<sess, nextObj, sessions, uiLog, lastCreate, lastWrite, NonSess>>

\* App.Update, SessionOutputMsg: the frame goes to the terminal; the watcher
\* may have an auto-reply (reply), written when the engine's session runs;
\* then the UI waits for the next frame
UiSessionOutput(t) ==
    /\ t \in Pending("msgOut")
    /\ uiLog' = [uiLog EXCEPT ![t.o] = @ \o t.data]
    /\ \E reply \in BOOLEAN :
        IF reply /\ sessions[t.p] # 0 /\ sess[sessions[t.p]].status = "running"
        THEN LET o == sessions[t.p] IN
             lastWrite' = [status |-> sess[o].status,
                           afterStop |-> sess[o].stops > 0,
                           n |-> SessWrite(sess[o]).n, err |-> SessWrite(sess[o]).err,
                           sent |-> SessWrite(sess[o]).sent]
        ELSE UNCHANGED lastWrite
    /\ tasks' = Replace(t, waitForOutput(t.p, sessions))
    /\ UNCHANGED <<sess, nextObj, sessions, lastCreate, NonSess>>

\* App.Update, SessionStoppedMsg
UiSessionStopped(t) ==
    /\ t \in Pending("msgStopped")
    /\ tasks' = tasks (-) SetToBag({t})
    /\ sess' = [sess EXCEPT ![t.o].stoppedMsgs = @ + 1]
    /\ UNCHANGED <<nextObj, sessions, uiLog, lastCreate, lastWrite, NonSess>>

\* App.Update, ErrorMsg
UiError(t) ==
    /\ t \in Pending("msgError")
    /\ tasks' = tasks (-) SetToBag({t})
    /\ UNCHANGED <<sess, nextObj, sessions, uiLog, lastCreate, lastWrite, NonSess>>

\* handleProjectsKeys, Enter on project p
KeyEnter(p) ==
    /\ BagCardinality(tasks) < MaxTasks
    /\ tasks' = IF sessions[p] # 0
                THEN IF sess[sessions[p]].status = "running"
                     THEN tasks (+) waitForOutput(p, sessions)
                     ELSE tasks
                ELSE tasks (+) SetToBag({Task("create", p, 0, <<>>)})
    /\ UNCHANGED <<sess, nextObj, sessions, uiLog, lastCreate, lastWrite, NonSess>>

\* handleProjectsKeys, Close on project p: App.closeSession
KeyClose(p) ==
    /\ CloseSession(p)
    /\ UNCHANGED <<nextObj, tasks, uiLog, lastCreate, lastWrite, NonSess>>

\* App.Update, ProfileSavedMsg for the profile of project p: a running
\* session is closed and started again
ProfileSaved(p) ==
    /\ BagCardinality(tasks) < MaxTasks
    /\ IF sessions[p] # 0 /\ sess[sessions[p]].status = "running"
       THEN /\ CloseSession(p)
            /\ tasks' = tasks (+) SetToBag({Task("create", p, 0, <<>>)})
       ELSE UNCHANGED <<sess, sessions, tasks>>
    /\ UNCHANGED <<nextObj, uiLog, lastCreate, lastWrite, NonSess>>

(***************************************************************************)
(* Calls on the engine by any of its callers                               *)
(***************************************************************************)
CallCreateSession(p) ==
    /\ \E outcome \in CreateOutcomes : CreateSession(p, outcome)
    /\ UNCHANGED <<tasks, uiLog, lastWrite, NonSess>>

CallCloseSession(p) ==
    /\ CloseSession(p)
    /\ lastCall' = [NoCall EXCEPT !.op = "close", !.project = p,
                                  !.had = sessions[p], !.obj = sessions[p],
                                  !.entry = sessions'[p]]
    /\ UNCHANGED <<nextObj, tasks, uiLog, lastCreate, lastWrite, NonCall>>

(***************************************************************************)
(* Spec: the engine and its sessions, under any order of CreateSession,    *)
(* CloseSession and Write calls; the children write no output.             *)
(***************************************************************************)
Init ==
    RingInit /\ SessInit /\ WatchOff /\ InputOff /\ ChainOff /\ TurnOff
        /\ EnvOff /\ CallOff /\ ExtOff /\ LockOff

Next ==
    \/ \E p \in Projects : CallCreateSession(p) \/ CallCloseSession(p)
    \/ \E o \in Obj :
        \/ RlSelect(o) \/ RlReadErr(o) \/ RlClose(o)
        \/ WlWait(o) \/ ChildExit(o) \/ Write(o)

Spec == Init /\ [][Next]_vars

(***************************************************************************)
(* C1: at most one session per project id; CreateSession returns the       *)
(* running session of the project without building another one, and builds *)
(* a new session object with the same id once that session has stopped.    *)
(***************************************************************************)
Running(p) == {o \in Obj : Built(o) /\ sess[o].id = p /\ sess[o].status = "running"}

SessionExclusivity ==
    /\ \A p \in Projects :
        /\ Cardinality(Running(p)) <= 1
        /\ \A o \in Running(p) : sessions[p] = o
    /\ lastCreate.prevStatus = "running" =>
        /\ lastCreate.obj = lastCreate.prev
        /\ ~lastCreate.fresh
        /\ lastCreate.err = ""
    /\ (lastCreate.prevStatus = "stopped" /\ lastCreate.err = "") =>
        /\ lastCreate.fresh
        /\ lastCreate.obj # lastCreate.prev
        /\ sess[lastCreate.obj].id = lastCreate.p
        /\ sess[lastCreate.prev].id = lastCreate.p

\* the last CreateSession found a stopped session and returned a new object
SessionExclusivityWitness ==
    /\ lastCreate.prev # 0
    /\ lastCreate.prevStatus = "stopped"
    /\ lastCreate.fresh
    /\ lastCreate.obj # lastCreate.prev
    /\ sessions[lastCreate.p] = lastCreate.obj

(***************************************************************************)
(* C24: CloseSession stops the session of the project if it is running and *)
(* removes the entry; called for a project without an entry (a second      *)
(* call, or a project never started) it returns nil and changes nothing;   *)
(* when it has returned the registry has no entry for the project and the  *)
(* session it closed is not running.                                       *)
(***************************************************************************)
CloseStep(p) ==
    /\ lastCall'.err = ""
    /\ sessions'[p] = 0
    /\ \A q \in Projects \ {p} : sessions'[q] = sessions[q]
    /\ sessions[p] = 0 => sess' = sess
    /\ sessions[p] # 0 =>
        /\ sess'[sessions[p]].status # "running"
        /\ sess[sessions[p]].status = "running" =>
               /\ sess'[sessions[p]].status = "stopped"
               /\ sess'[sessions[p]].done
               /\ sess'[sessions[p]].ptmx = "closed"
        /\ \A o \in Obj \ {sessions[p]} : sess'[o] = sess[o]

CloseSessionIdempotent ==
    [][\A p \in Projects : CallCloseSession(p) => CloseStep(p)]_vars

\* CloseSession was called for a project whose session an earlier call had
\* stopped and removed
CloseSessionIdempotentWitness ==
    /\ lastCall.op = "close"
    /\ lastCall.had = 0
    /\ sessions[lastCall.project] = 0
    /\ \E o \in Obj : /\ Built(o)
                       /\ sess[o].id = lastCall.project
                       /\ sess[o].stops = 1
                       /\ sess[o].status = "stopped"

(***************************************************************************)
(* C10: Write on a session that is not running returns "session not        *)
(* running" and sends nothing to the PTY; so does every Write after a      *)
(* Stop() of the session has returned.                                     *)
(***************************************************************************)
WriteNeedsRunning ==
    /\ lastWrite.status \in {"idle", "stopped", "error"} =>
        /\ ~lastWrite.sent
        /\ lastWrite.n = 0
        /\ lastWrite.err = "session not running"
    /\ lastWrite.afterStop =>
        /\ ~lastWrite.sent
        /\ lastWrite.err = "session not running"

\* a Write was issued on a session after its Stop() returned
WriteNeedsRunningWitness ==
    /\ lastWrite.afterStop
    /\ lastWrite.status = "stopped"
    /\ lastWrite.err = "session not running"

(***************************************************************************)
(* SpecSession: one PTYSession object under any order of Start, Stop and   *)
(* Write calls by the holders of the object.  A second Start is taken up   *)
(* once the loops of the first have returned.                              *)
(***************************************************************************)
SessionInit ==
    /\ sess = [o \in Obj |-> IF o = 1 THEN NewPTYSession("p1") ELSE NoSession]
    /\ nextObj = 2
    /\ sessions = [p \in Projects |-> 0]
    /\ tasks = EmptyBag
    /\ uiLog = [o \in Obj |-> <<>>]
    /\ lastCreate = NoCreate
    /\ lastWrite = NoWrite

Start(o) ==
    /\ Built(o)
    /\ sess[o].rl \in {"none", "exit"} /\ sess[o].wl \in {"none", "done"}
    /\ ~sess[o].panic
    /\ \E outcome \in StartOutcomes :
        /\ sess' = [sess EXCEPT ![o] = SessStart(@, outcome)]
        /\ lastCall' = [NoCall EXCEPT
                           !.op = "start", !.obj = o, !.outcome = outcome,
                           !.err = IF StartOk(sess[o], outcome) THEN "" ELSE outcome,
                           !.before = sess[o].status,
                           !.after = SessStart(sess[o], outcome).status]
    /\ UNCHANGED <<nextObj, sessions, tasks, uiLog, lastCreate, lastWrite, NonCall>>

\* Resize called on session object o by any holder of the object
Resize(o) ==
    /\ Built(o)
    /\ \E rows \in Dims, cols \in Dims :
        \E answer \in PtyAnswers(rows, cols) :
            LET res == SessResize(sess[o], rows, cols, answer) IN
            /\ sess' = [sess EXCEPT ![o] = res.s]
            /\ lastCall' = [NoCall EXCEPT
                               !.op = "resize", !.obj = o, !.err = res.err,
                               !.before = sess[o].ptmx,
                               !.rows = rows, !.cols = cols,
                               !.size = sess[o].size, !.sizeAfter = res.s.size]
    /\ UNCHANGED <<nextObj, sessions, tasks, uiLog, lastCreate, lastWrite, NonCall>>

Stop(o) ==
    /\ Built(o)
    /\ sess' = [sess EXCEPT ![o] = SessStop(@)]
    /\ UNCHANGED <<nextObj, sessions, tasks, uiLog, lastCreate, lastWrite, NonSess>>

SessionNext ==
    \E o \in Obj :
        \/ Start(o) \/ Stop(o) \/ Write(o) \/ Resize(o)
        \/ RlSelect(o) \/ RlReadData(o) \/ RlReadErr(o) \/ RlClose(o)
        \/ RlSend(o) \/ RlDrop(o) \/ RlResend(o)
        \/ WlWait(o) \/ ChildExit(o)

InitSession ==
    RingInit /\ SessionInit /\ WatchOff /\ InputOff /\ ChainOff /\ TurnOff
        /\ EnvOff /\ CallOff /\ ExtOff /\ LockOff

SpecSession == InitSession /\ [][SessionNext]_vars

(***************************************************************************)
(* C25: when Start fails at a step before the child is launched (creating  *)
(* the PTY, preparing the PTY command, starting the process) the status of *)
(* the session is error when Start returns.                                *)
(***************************************************************************)
StartFailureIsError ==
    (/\ lastCall.op = "start"
     /\ lastCall.outcome \in {"ptyfail", "nocommand", "startfail"}
     /\ lastCall.before # "running")
        => lastCall.after = "error"

(***************************************************************************)
(* C26: Resize with rows = 0 or cols = 0 returns an error and leaves the   *)
(* size of the PTY as it was; Resize of an open PTY with positive rows and *)
(* cols returns nil and sets the size.                                     *)
(***************************************************************************)
ResizeRejectsZeros ==
    lastCall.op = "resize" =>
        /\ (lastCall.rows = 0 \/ lastCall.cols = 0) =>
               /\ lastCall.err # ""
               /\ lastCall.sizeAfter = lastCall.size
        /\ (lastCall.rows > 0 /\ lastCall.cols > 0 /\ lastCall.before = "open") =>
               /\ lastCall.err = ""
               /\ lastCall.sizeAfter = <<lastCall.cols, lastCall.rows>>

(***************************************************************************)
(* C4: after Stop() calls, in any interleaving with readLoop and waitLoop, *)
(* the session is stopped and its output channel has been closed exactly   *)
(* once.                                                                   *)
(***************************************************************************)
StopClosesOutputOnce ==
    \A o \in Obj :
        (sess[o].stops > 0 /\ sess[o].rl = "exit" /\ sess[o].wl = "done") =>
            /\ sess[o].status = "stopped"
            /\ sess[o].closes = 1
            /\ ~sess[o].panic

(***************************************************************************)
(* C5: the status moves idle -> running -> stopped or error (idle -> error *)
(* when the launch fails); a stopped or error session never changes its    *)
(* status again.                                                           *)
(***************************************************************************)
StatusMoves ==
    {<<"idle", "running">>, <<"idle", "error">>,
     <<"running", "stopped">>, <<"running", "error">>}

StatusOnlyForward ==
    [][\A o \in Obj :
        \/ sess'[o].status = sess[o].status
        \/ <<sess[o].status, sess'[o].status>> \in StatusMoves]_vars

(***************************************************************************)
(* SpecPump: one running session, its child writing output, and the UI     *)
(* loop with its WaitForOutput commands.  It starts where CreateSession    *)
(* has returned the session and the UI loop has handled SessionStartedMsg; *)
(* the session ends when its child exits.                                  *)
(***************************************************************************)
PumpInit ==
    /\ sess = [o \in Obj |-> IF o = 1 THEN SessStart(NewPTYSession("p1"), "ok")
                             ELSE NoSession]
    /\ nextObj = 2
    /\ sessions = [p \in Projects |-> IF p = "p1" THEN 1 ELSE 0]
    /\ tasks = SetToBag({Task("wait", "p1", 1, <<>>)})
    /\ uiLog = [o \in Obj |-> <<>>]
    /\ lastCreate = [p |-> "p1", prev |-> 0, prevStatus |-> "none", obj |-> 1,
                     err |-> "", fresh |-> TRUE]
    /\ lastWrite = NoWrite

PumpNext ==
    \/ \E o \in Obj :
        \/ RlSelect(o) \/ RlReadData(o) \/ RlReadErr(o) \/ RlClose(o)
        \/ RlSend(o) \/ RlDrop(o) \/ RlResend(o)
        \/ WlWait(o) \/ ChildExit(o)
    \/ \E t \in BagToSet(tasks) :
        \/ WaitFirst(t) \/ WaitClosed(t) \/ WaitDrain(t)
        \/ UiSessionOutput(t) \/ UiSessionStopped(t)
    \/ \E p \in Projects : KeyEnter(p)

InitPump ==
    RingInit /\ PumpInit /\ WatchOff /\ InputOff /\ ChainOff /\ TurnOff
        /\ EnvOff /\ CallOff /\ ExtOff /\ LockOff

SpecPump == InitPump /\ [][PumpNext]_vars

\* the scheduler runs every goroutine that can take a step, and the UI loop
\* handles every message sent to it; nothing makes the user press a key or
\* the child write or exit
PumpFairness ==
    /\ \A o \in Obj :
        /\ WF_vars(RlSelect(o)) /\ WF_vars(RlReadErr(o)) /\ WF_vars(RlClose(o))
        /\ WF_vars(RlSend(o)) /\ WF_vars(RlDrop(o)) /\ WF_vars(RlResend(o))
        /\ WF_vars(WlWait(o))
    /\ WF_vars(\E t \in BagToSet(tasks) : WaitFirst(t))
    /\ WF_vars(\E t \in BagToSet(tasks) : WaitClosed(t))
    /\ WF_vars(\E t \in BagToSet(tasks) : WaitDrain(t))
    /\ WF_vars(\E t \in BagToSet(tasks) : UiSessionOutput(t))
    /\ WF_vars(\E t \in BagToSet(tasks) : UiSessionStopped(t))

SpecPumpFair == SpecPump /\ PumpFairness

\* q is strictly increasing: the child writes the bytes 1, 2, 3, ..., so
\* these are the in-order subsequences of what it wrote
InOrder(q) == \A i \in 1..(Len(q) - 1) : q[i] < q[i + 1]

(***************************************************************************)
(* C6: every chunk readLoop reads is appended to the ring buffer in read   *)
(* order, whatever happens to the output channel: History() is the         *)
(* trailing capacity bytes of everything read, and the channel holds an    *)
(* in-order subsequence of what was read.                                  *)
(***************************************************************************)
RingLossless ==
    \A o \in Obj :
        Built(o) =>
            /\ History(sess[o]) = Trailing(ReadLog(sess[o]), RingCap)
            /\ InOrder(Flatten(sess[o].output))
            /\ \A i \in 1..Len(Flatten(sess[o].output)) :
                 Flatten(sess[o].output)[i] \in 1..sess[o].nread

\* a chunk was dropped on the way to the UI (bytes read are neither queued,
\* nor held by a command, nor handled) and the history still has it
RingLosslessWitness ==
    /\ sess[1].rl = "select"
    /\ sess[1].nread > RingCap
    /\ \A t \in BagToSet(tasks) : t.data = <<>>
    /\ Len(uiLog[1]) + Len(Flatten(sess[1].output)) < sess[1].nread
    /\ History(sess[1]) = Trailing(ReadLog(sess[1]), RingCap)

(***************************************************************************)
(* C9: the SessionOutputMsg payloads the UI loop handles for a session     *)
(* carry the bytes in the order the child wrote them.                      *)
(***************************************************************************)
UiOrderPreserved == \A o \in Obj : InOrder(uiLog[o])

(***************************************************************************)
(* C8: readLoop never blocks on the output channel, and while the session  *)
(* runs, a frame in the channel is followed by a frame handled by the UI   *)
(* loop: the consumer is never stalled for good.                           *)
(***************************************************************************)
NoPermanentStall ==
    /\ \A o \in Obj :
        (sess[o].rl \in {"send", "drop", "resend"}) ~> (sess[o].rl \in {"select", "exit"})
    /\ \A n \in 0..MaxBytes :
        (sess[1].status = "running" /\ Len(sess[1].output) > 0 /\ Len(uiLog[1]) = n)
            ~> (Len(uiLog[1]) > n \/ sess[1].status # "running")

\* the channel was full, readLoop dropped the oldest chunk, and the UI loop
\* has handled frames
NoPermanentStallWitness ==
    /\ sess[1].status = "running"
    /\ sess[1].rl = "resend"
    /\ Len(sess[1].output) = OutputCap - 1
    /\ Len(uiLog[1]) > 0

(***************************************************************************)
(* Specification of the ring buffer alone                                  *)
(***************************************************************************)
RbWrite ==
    \E p \in SeqsOf(Byte, 0, MaxWrite) :
        /\ Len(rbLog) + Len(p) <= MaxLog
        /\ rb' = RingWrite(rb, p)
        /\ rbLog' = rbLog \o p
        /\ UNCHANGED <<rbEach, NonRing>>

RbReset ==
    /\ rb' = RingReset(rb)
    /\ rbLog' = <<>>
    /\ UNCHANGED <<rbEach, NonRing>>

RingNext == RbWrite \/ RbReset

InitRing ==
    RingInit /\ SessInit /\ WatchOff /\ InputOff /\ ChainOff /\ TurnOff
        /\ EnvOff /\ CallOff /\ ExtOff /\ LockOff

SpecRing == InitRing /\ [][RingNext]_vars

(***************************************************************************)
(* C7: snapshot() is the concatenation of everything written when that     *)
(* fits the capacity, and its trailing capacity bytes otherwise.           *)
(***************************************************************************)
RingFidelity ==
    /\ RingBytes(rb) = Trailing(rbLog, RingCap)
    /\ RingLen(rb) = Len(RingBytes(rb))

\* a wrapped buffer: more than the capacity was written and the oldest
\* byte is not at index 0
RingFidelityWitness ==
    /\ Len(rbLog) > RingCap
    /\ rb.full
    /\ rb.start > 0
    /\ RingBytes(rb) = Trailing(rbLog, RingCap)

(***************************************************************************)
(* SpecWatch: the output watcher of one project under the UI loop's        *)
(* SessionOutputMsg handler (update.go), with the profile's level fixed    *)
(* at the start.                                                           *)
(***************************************************************************)
Levels == {"nil", "none", "safe", "vibe", "yolo"}
WatchAtoms == {"yn", "run", "rm", "nl"}
TickStep == autoReplyCooldown

WatchInit ==
    /\ WatchIdle
    /\ level \in Levels

\* case SessionOutputMsg: Process, then ConsumeAutoReply and the write to
\* the session when the engine still has it running (running)
OnSessionOutput(data, running) ==
    /\ Len(frames) < MaxFrames
    /\ Len(Flatten(frames)) + Len(data) <= MaxAtoms
    /\ LET st    == Process(watcher, level, data, now)
           reply == st.w.pendingAutoReply
       IN  /\ watcher' = [st.w EXCEPT !.pendingAutoReply = ""]
           /\ autoLog' = IF reply = "" THEN autoLog
                         ELSE Append(autoLog,
                                     [line |-> st.staged[1], level |-> level,
                                      reply |-> reply, written |-> running])
           /\ evLog' = evLog \o [i \in 1..Len(st.events) |->
                                    [ev |-> st.events[i], at |-> now]]
    /\ frames' = Append(frames, data)
    /\ UNCHANGED <<now, level, NonWatch>>

\* time passes
Tick ==
    /\ now + TickStep <= MaxTime
    /\ now' = now + TickStep
    /\ UNCHANGED <<watcher, level, frames, autoLog, evLog, NonWatch>>

WatchNext ==
    \/ \E data \in SeqsOf(WatchAtoms, 1, MaxAtoms) :
          \E running \in BOOLEAN : OnSessionOutput(data, running)
    \/ Tick

InitWatch ==
    RingInit /\ SessInit /\ WatchInit /\ InputOff /\ ChainOff /\ TurnOff
        /\ EnvOff /\ CallOff /\ ExtOff /\ LockOff

SpecWatch == InitWatch /\ [][WatchNext]_vars

\* C2: no auto-reply is staged, and no "y\r" written, for a line that
\* contains "rm -rf /", whatever the auto-approve level
NoAutoReplyForRm ==
    \A i \in 1..Len(autoLog) : ~Has(autoLog[i].line, "rm")

PromptLines(text) ==
    LET lines == Split(ReplaceCr(StripAnsi(text)), "nl") IN
    {i \in 1..Len(lines) : /\ MatchInputRequired(TrimSpace(lines[i]))
                           /\ MatchCommandApproval(TrimSpace(lines[i]))}

\* every frame after the first starts a new line and holds no prompt
LaterFramesQuiet ==
    \A k \in 2..Len(frames) :
        /\ frames[k][1] = "nl"
        /\ ~Has(frames[k], "yn")

\* C33: auto-reply does not loop: when the frames after the first hold no
\* new prompt, the session is written at most one auto-reply for each
\* approval prompt line in its output, however much time passes
AutoReplyOncePerPrompt ==
    LaterFramesQuiet =>
        Cardinality({i \in 1..Len(autoLog) : autoLog[i].written})
            <= Cardinality(PromptLines(Flatten(frames)))

(***************************************************************************)
(* SpecInput: the keyboard in terminal mode.  Two terminals have running   *)
(* sessions, A is active; the user types, changes mode, pane and dispatch  *)
(* mode, flush timers expire, sessions end.                                *)
(***************************************************************************)
Letters == {<<RuneN>>, <<RuneI>>}
TermKeys ==
    {Key("runes", r, alt) : r \in Letters \cup {<<Rune1>>, <<RuneNi3, RuneHao3>>},
                            alt \in BOOLEAN}
    \cup {Key("enter", <<>>, FALSE), Key("f1", <<>>, FALSE)}

InputInit ==
    /\ app = [NewApp EXCEPT !.inputMode = "terminal", !.activeTermID = "A"]
    /\ timers = EmptyBag
    /\ alive = Terms
    /\ stdin = [t \in Terms |-> <<>>]
    /\ origin = <<>>
    /\ lastKey = NoKey
    /\ keyLog = <<>>
    /\ trail = [moved |-> FALSE, leak |-> {}]

\* the <<from, to>> pairs of a flush of the staged runes into session to
Leaks(to) == {<<origin[i], to>> : i \in {j \in 1..Len(origin) : origin[j] # to}}

\* App.handleTerminalKeys for key k
handleTerminalKeys(k) ==
    /\ app.inputMode = "terminal"
    /\ Len(keyLog) < MaxKeys
    /\ LET id == app.activeTermID IN
       IF id # "" /\ id \in alive
       THEN LET b0  == SetTarget(app.imeBuffer, id)
                pr  == ProcessRunes(b0, k.runes)
                fl  == ImeFlush(b0)
                isRunes == k.type = "runes" /\ Len(k.runes) > 0
                flushes == IF isRunes THEN pr.shouldFlushFirst
                           ELSE Len(b0.buffer) > 0
                out == IF isRunes
                       THEN IF Len(pr.output) > 0 /\ k.alt THEN <<ESC>> \o pr.output
                            ELSE pr.output
                       ELSE keyToBytes(k)
                b1  == IF flushes THEN fl.b ELSE IF isRunes THEN pr.b ELSE b0
                sent == (IF flushes THEN fl.output ELSE <<>>) \o out
            IN  /\ app' = [app EXCEPT !.imeBuffer = b1]
                /\ stdin' = [stdin EXCEPT ![id] = @ \o sent]
                /\ timers' = IF isRunes /\ pr.arm THEN timers (+) SetToBag({id})
                             ELSE timers
                /\ origin' = IF b1.buffer = <<>> THEN <<>>
                             ELSE origin \o [i \in 1..(Len(b1.buffer) - Len(origin)) |-> id]
                /\ lastKey' = [key |-> k, mode |-> app.dispatchMode, target |-> id,
                               held |-> b0.buffer, sent |-> sent,
                               to |-> IF sent = <<>> THEN {} ELSE {id},
                               before |-> stdin[id], running |-> alive]
                /\ keyLog' = Append(keyLog, [key |-> k, target |-> id])
                /\ trail' = IF flushes THEN [trail EXCEPT !.leak = @ \cup Leaks(id)]
                            ELSE trail
       ELSE UNCHANGED <<app, stdin, timers, origin, lastKey, keyLog, trail>>
    /\ UNCHANGED <<alive, NonInput>>

\* case IMEFlushMsg with TargetID t
OnIMEFlush(t) ==
    /\ BagIn(t, timers)
    /\ timers' = timers (-) SetToBag({t})
    /\ IF /\ app.inputMode = "terminal" /\ app.activeTermID = t
          /\ Len(app.imeBuffer.buffer) > 0
       THEN IF t \in alive
            THEN /\ stdin' = [stdin EXCEPT ![t] = @ \o ImeFlush(app.imeBuffer).output]
                 /\ app' = [app EXCEPT !.imeBuffer = ImeFlush(@).b]
                 /\ origin' = <<>>
                 /\ trail' = [trail EXCEPT !.leak = @ \cup Leaks(t)]
            ELSE /\ app' = [app EXCEPT !.imeBuffer.buffer = <<>>]
                 /\ origin' = <<>>
                 /\ UNCHANGED <<stdin, trail>>
       ELSE UNCHANGED <<app, stdin, origin, trail>>
    /\ UNCHANGED <<alive, lastKey, keyLog, NonInput>>

\* App.toggleInputMode
toggleInputMode ==
    /\ IF app.inputMode = "terminal"
       THEN app' = [app EXCEPT !.inputMode = "control"]
       ELSE IF app.activeTermID = "" THEN app' = app
       ELSE app' = [app EXCEPT !.inputMode = "terminal"]
    /\ trail' = [trail EXCEPT !.moved = TRUE]
    /\ UNCHANGED <<timers, alive, stdin, origin, lastKey, keyLog, NonInput>>

\* App.setActivePane in control mode: terminal t becomes the active one
setActivePane(t) ==
    /\ app.inputMode = "control"
    /\ app.activeTermID # t
    /\ app' = [app EXCEPT !.activeTermID = t]
    /\ trail' = [trail EXCEPT !.moved = TRUE]
    /\ UNCHANGED <<timers, alive, stdin, origin, lastKey, keyLog, NonInput>>

\* App.cycleDispatchMode
cycleDispatchMode ==
    /\ app.inputMode = "control"
    /\ app' = [app EXCEPT !.dispatchMode =
                    IF @ = "solo" THEN "broadcast"
                    ELSE IF @ = "broadcast" THEN "chain" ELSE "solo"]
    /\ UNCHANGED <<timers, alive, stdin, origin, lastKey, keyLog, trail, NonInput>>

\* the session of terminal t ends
SessionEnds(t) ==
    /\ t \in alive
    /\ alive' = alive \ {t}
    /\ UNCHANGED <<app, timers, stdin, origin, lastKey, keyLog, trail, NonInput>>

InputNext ==
    \/ \E k \in TermKeys : handleTerminalKeys(k)
    \/ \E t \in Terms : OnIMEFlush(t)
    \/ toggleInputMode
    \/ \E t \in Terms : setActivePane(t)
    \/ cycleDispatchMode
    \/ \E t \in Terms : SessionEnds(t)

InitInput ==
    RingInit /\ SessInit /\ WatchOff /\ InputInit /\ ChainOff /\ TurnOff
        /\ EnvOff /\ CallOff /\ ExtOff /\ LockOff

SpecInput == InitInput /\ [][InputNext]_vars

(***************************************************************************)
(* C11: in broadcast mode the bytes of a typed key are written to every    *)
(* session whose status is running, not only to the focused one.           *)
(***************************************************************************)
BroadcastReachesAll ==
    (lastKey.mode = "broadcast" /\ lastKey.sent # <<>>) => lastKey.to = lastKey.running

\* the last key came with a non-ASCII rune while letters were staged
CommitOverPreedit ==
    /\ lastKey.key.type = "runes"
    /\ \E i \in 1..Len(lastKey.key.runes) : lastKey.key.runes[i] > 127
    /\ lastKey.held # <<>>

RECURSIVE RunesTyped(_)
RunesTyped(log) ==
    IF log = <<>> THEN <<>> ELSE BytesOf(Head(log).key.runes) \o RunesTyped(Tail(log))

\* only lowercase letters have been typed, all into terminal A, whose
\* session is still running, and nothing else has been done
LettersOnly ==
    /\ keyLog # <<>>
    /\ \A i \in 1..Len(keyLog) :
          keyLog[i].key.type = "runes" /\ isLikelyIMEPreedit(keyLog[i].key.runes)
    /\ ~trail.moved
    /\ "A" \in alive

\* C13: if only lowercase letters are typed into the focused running
\* session, no letter is ever written twice or out of order, and once the
\* flush timers have expired the letters have all been written, exactly
\* once and in typing order
LettersFlushedOnce ==
    LettersOnly =>
        /\ stdin["A"] \o BytesOf(app.imeBuffer.buffer) = RunesTyped(keyLog)
        /\ timers = EmptyBag =>
              stdin["A"] = RunesTyped(keyLog) /\ app.imeBuffer.buffer = <<>>

\* two letters were typed, two timers armed, both expired
LettersFlushedOnceWitness ==
    /\ LettersOnly
    /\ Len(keyLog) = 2
    /\ keyLog[1].key.runes # keyLog[2].key.runes
    /\ timers = EmptyBag
    /\ stdin["A"] = RunesTyped(keyLog)

RECURSIVE KeysTyped(_, _)
KeysTyped(log, t) ==
    IF log = <<>> THEN <<>>
    ELSE (IF Head(log).target = t THEN keyToBytes(Head(log).key) ELSE <<>>)
            \o KeysTyped(Tail(log), t)

AsciiOnly ==
    \A i \in 1..Len(keyLog) :
        \A j \in 1..Len(keyLog[i].key.runes) : keyLog[i].key.runes[j] <= 127

\* C14: for ASCII keys no key is lost or reordered: once the IME buffer is
\* empty, the bytes written to a running session are the bytes of the keys
\* typed into it, in typing order
AsciiKeysInOrder ==
    (AsciiOnly /\ app.imeBuffer.buffer = <<>>) =>
        \A t \in alive : stdin[t] = KeysTyped(keyLog, t)

\* C15: when the target of the IME buffer changes, the letters staged for
\* the old target are cleared: they are never written to the new one
StagedNeverLeaks == trail.leak = {}

(***************************************************************************)
(* SpecStorm: the watcher of one session under a stream that repeats the   *)
(* same lines while time passes.                                           *)
(***************************************************************************)
StormLines == {<<"yn", "nl">>, <<"done", "nl">>}
StormTick == fireCooldown \div 3

StormInit == WatchIdle /\ level = "none"

\* case SessionOutputMsg for a frame that repeats a line
StormFrame(data) ==
    /\ Len(frames) < MaxStorm
    /\ LET st == Process(watcher, level, data, now)
       IN  /\ watcher' = [st.w EXCEPT !.pendingAutoReply = ""]
           /\ evLog' = evLog \o [i \in 1..Len(st.events) |->
                                    [ev |-> st.events[i], at |-> now]]
    /\ frames' = Append(frames, data)
    /\ UNCHANGED <<now, level, autoLog, NonWatch>>

\* time passes
StormClock ==
    /\ now + StormTick <= MaxClock
    /\ now' = now + StormTick
    /\ UNCHANGED <<watcher, level, frames, autoLog, evLog, NonWatch>>

StormNext ==
    \/ \E data \in StormLines : StormFrame(data)
    \/ StormClock

InitStorm ==
    RingInit /\ SessInit /\ StormInit /\ InputOff /\ ChainOff /\ TurnOff
        /\ EnvOff /\ CallOff /\ ExtOff /\ LockOff

SpecStorm == InitStorm /\ [][StormNext]_vars

\* C16: two events with the same key (kind, title, message) are at least
\* 12 seconds apart, so within 30 seconds a repeated prompt line yields at
\* most 3 input_required events
CooldownPerKey ==
    /\ \A i \in 1..Len(evLog) : \A j \in (i + 1)..Len(evLog) :
          evLog[i].ev = evLog[j].ev => evLog[j].at - evLog[i].at >= fireCooldown
    /\ \A i \in 1..Len(evLog) :
          Cardinality({j \in 1..Len(evLog) :
                          /\ evLog[j].ev = evLog[i].ev
                          /\ evLog[j].at - evLog[i].at \in 0..29}) <= 3

\* the prompt line was repeated and its event emitted three times
CooldownPerKeyWitness ==
    /\ Len(frames) >= 4
    /\ \E i, j, k \in 1..Len(evLog) :
          /\ i < j /\ j < k
          /\ evLog[i].ev.type = "input_required"
          /\ evLog[i].ev = evLog[j].ev /\ evLog[j].ev = evLog[k].ev

(***************************************************************************)
(* SpecChain: AppendConclusion calls that may overlap in time.             *)
(***************************************************************************)
InProgress(ch) == {c \in Calls : ch.pc[c] \notin {"idle", "done"}}

\* AppendConclusion, lines 81-87: the entry enters the chain under c.mu
AppendLocked(c, agent, conclusion) ==
    /\ chain.pc[c] = "idle"
    /\ \A d \in Calls : d < c => chain.pc[d] # "idle"
    /\ CanLock(chain)
    /\ chain' = [chain EXCEPT !.mem = Append(@, ChainEntry(agent, conclusion)),
                              !.pc[c] = "save"]
    /\ UNCHANGED NonChain

\* Save: c.mu.RLock and json.MarshalIndent
SaveMarshal(c) ==
    /\ chain.pc[c] = "save"
    /\ chain' = [chain EXCEPT !.readers = @ \cup {c},
                              !.snap[c] = Marshal(chain.mem),
                              !.pc[c] = "open"]
    /\ UNCHANGED NonChain

\* os.WriteFile: the file is opened with O_TRUNC
SaveOpen(c) ==
    /\ chain.pc[c] = "open"
    /\ chain' = [chain EXCEPT !.file = <<>>, !.pc[c] = "write"]
    /\ UNCHANGED NonChain

\* os.WriteFile: the data is written
SaveWrite(c) ==
    /\ chain.pc[c] = "write"
    /\ chain' = [chain EXCEPT !.file = WriteAt0(@, chain.snap[c]),
                              !.pc[c] = "unlock"]
    /\ UNCHANGED NonChain

\* Save returns: c.mu.RUnlock; seen records the file when no call is left
SaveReturn(c) ==
    /\ chain.pc[c] = "unlock"
    /\ chain' = [chain EXCEPT !.readers = @ \ {c},
                              !.pc[c] = "done",
                              !.seen = IF InProgress(chain) = {c}
                                       THEN Append(@, chain.file) ELSE @]
    /\ UNCHANGED NonChain

ChainNext ==
    \/ \E c \in Calls, agent \in Agents, conclusion \in Conclusions :
          AppendLocked(c, agent, conclusion)
    \/ \E c \in Calls : SaveMarshal(c)
    \/ \E c \in Calls : SaveOpen(c)
    \/ \E c \in Calls : SaveWrite(c)
    \/ \E c \in Calls : SaveReturn(c)

InitChain ==
    RingInit /\ SessInit /\ WatchOff /\ InputOff /\ ChainOff /\ TurnOff
        /\ EnvOff /\ CallOff /\ ExtOff /\ LockOff

SpecChain == InitChain /\ [][ChainNext]_vars

IsPrefix(a, b) == Len(a) <= Len(b) /\ SubSeq(b, 1, Len(a)) = a

\* C17: once all AppendConclusion calls have returned, the file holds one
\* entry per call, in the order the entries entered the chain, and what a
\* call wrote is still there, unchanged, after every later call
ChainAppendOnly ==
    /\ (InProgress(chain) = {} /\ chain.mem # <<>>) =>
          /\ Unmarshal(chain.file).ok
          /\ Unmarshal(chain.file).entries = chain.mem
          /\ Len(chain.mem) = Cardinality({c \in Calls : chain.pc[c] = "done"})
    /\ \A i \in 1..Len(chain.seen) :
          /\ Unmarshal(chain.seen[i]).ok
          /\ \A j \in i..Len(chain.seen) :
                IsPrefix(Unmarshal(chain.seen[i]).entries,
                         Unmarshal(chain.seen[j]).entries)

\* three calls, two of which overlapped, have returned
ChainAppendOnlyWitness ==
    /\ InProgress(chain) = {}
    /\ Len(chain.mem) = 3
    /\ Len(chain.seen) = 2
    /\ Unmarshal(chain.file).entries = chain.mem

(***************************************************************************)
(* SpecTurn: roles are assigned, turns are advanced, the commands run.     *)
(***************************************************************************)
TurnExprs ==
    {<<>>, <<"1">>, <<"0", ",", "1", ",", "0">>}

TurnFiles == {"", "notes.md"}

TurnLive == ~turn.panicked

\* assignRolesToTerminalsFile: the file, the sequence, one injection a terminal
assignRolesToTerminalsFile(seqStr, file) ==
    /\ TurnLive
    /\ turn.issued + Len(turn.grid) <= MaxCmds
    /\ LET filename == IF file = "" THEN ".vibemux/Project_Discussion.md" ELSE file
           t1 == initAutoTurn([turn EXCEPT !.turnFilename = filename], seqStr)
           injections ==
               {[kind |-> "role", n |-> turn.issued + i, target |-> turn.grid[i],
                 step |-> 1, want |-> <<>>] : i \in 1..Len(turn.grid)}
       IN  turn' = [t1 EXCEPT !.cmds = @ \cup injections,
                              !.issued = @ + Len(turn.grid),
                              !.last = NoLast]
    /\ UNCHANGED <<NonTurn, chainVars>>

\* sendNextTurn, lines 82-99
sendNextTurn ==
    /\ TurnLive
    /\ turn.issued < MaxCmds
    /\ turn.currentSeqIndex <= Len(turn.turnSequence)
    /\ LET last == [op |-> "sendNextTurn", before |-> turn.currentSeqIndex,
                    len |-> Len(turn.turnSequence), issued |-> {}]
       IN
       IF Len(turn.turnSequence) = 0
       THEN turn' = [turn EXCEPT !.last = last]
       ELSE LET t1 == [turn EXCEPT !.currentSeqIndex = @ + 1] IN
            IF t1.currentSeqIndex >= Len(t1.turnSequence)
            THEN turn' = [t1 EXCEPT !.autoTurnEnabled = FALSE,
                                    !.statusMsg = "Auto-Turn Sequence Completed",
                                    !.last = last]
            ELSE LET t2 == sendCurrentTurn(t1, chain) IN
                 turn' = [t2 EXCEPT !.last =
                             [last EXCEPT !.issued =
                                 {c.target : c \in t2.cmds \ turn.cmds}]]
    /\ UNCHANGED <<NonTurn, chainVars>>

\* toggleAutoTurn, lines 145-161
toggleAutoTurn ==
    /\ TurnLive
    /\ turn.issued < MaxCmds
    /\ LET t1 == [turn EXCEPT !.autoTurnEnabled = ~@]
           t2 == IF t1.autoTurnEnabled THEN sendCurrentTurn(t1, chain) ELSE t1
       IN  IF updateTurnStatusPanics(t2)
           THEN turn' = [t2 EXCEPT !.panicked = TRUE, !.last = NoLast]
           ELSE turn' = [t2 EXCEPT !.statusMsg =
                                      IF t2.autoTurnEnabled THEN "Auto-Turn: ON"
                                      ELSE "Auto-Turn: OFF",
                                   !.last = NoLast]
    /\ UNCHANGED <<NonTurn, chainVars>>

\* a command runs up to its first Write: GetSession, the status, the message
RunCmd(c) ==
    /\ c \in turn.cmds /\ c.step = 1
    /\ LET up == c.target \in turn.running
           pos == GridPos(turn.grid, c.target)
           data == IF c.kind = "turn"
                   THEN [kind |-> "turn", data |-> TurnPrompt(turn.turnFilename),
                         want |-> c.want]
                   ELSE [kind |-> "role", data |-> <<"nl", "nl", "role prompt">>,
                         want |-> <<>>]
       IN  turn' = [turn EXCEPT
                        !.cmds = IF up /\ c.kind = "turn"
                                 THEN (@ \ {c}) \cup {[c EXCEPT !.step = 2]}
                                 ELSE @ \ {c},
                        !.sent[pos] = IF up THEN Append(@, data) ELSE @,
                        !.runs = IF c.kind = "turn"
                                 THEN Append(@, [target |-> c.target,
                                                 running |-> up, wrote |-> up])
                                 ELSE @]
    /\ UNCHANGED <<NonTurn, chainVars>>

\* the turn command after its sleep: Write("\r"), an error when the session ended
RunCmdSubmit(c) ==
    /\ c \in turn.cmds /\ c.step = 2
    /\ LET up == c.target \in turn.running
           pos == GridPos(turn.grid, c.target)
       IN  turn' = [turn EXCEPT
                        !.cmds = @ \ {c},
                        !.sent[pos] = IF up
                                      THEN Append(@, [kind |-> "submit",
                                                      data |-> <<"cr">>,
                                                      want |-> <<>>])
                                      ELSE @]
    /\ UNCHANGED <<NonTurn, chainVars>>

\* the session of a terminal ends
TurnSessionEnds(id) ==
    /\ id \in turn.running
    /\ turn' = [turn EXCEPT !.running = @ \ {id}]
    /\ UNCHANGED <<NonTurn, chainVars>>

\* AppendConclusion from the UI loop: the append and the Save
TurnAppendConclusion(agent, conclusion) ==
    /\ TurnLive
    /\ Len(chain.mem) < MaxCalls - 1
    /\ LET mem == Append(chain.mem, ChainEntry(agent, conclusion)) IN
       chain' = [chain EXCEPT !.mem = mem, !.file = Marshal(mem)]
    /\ UNCHANGED <<NonTurn, turnVars>>

TurnNext ==
    \/ \E seqStr \in TurnExprs, file \in TurnFiles :
          assignRolesToTerminalsFile(seqStr, file)
    \/ sendNextTurn
    \/ toggleAutoTurn
    \/ \E c \in turn.cmds : RunCmd(c)
    \/ \E c \in turn.cmds : RunCmdSubmit(c)
    \/ \E id \in turn.running : TurnSessionEnds(id)
    \/ \E agent \in Agents : TurnAppendConclusion(agent, "c1")

TurnInit == \E grid \in Grids : Len(grid) >= 2 /\ turn = NewTurn(grid, <<>>)

InitTurn ==
    RingInit /\ SessInit /\ WatchOff /\ InputOff /\ ChainOff /\ TurnInit
        /\ EnvOff /\ CallOff /\ ExtOff /\ LockOff

SpecTurn == InitTurn /\ [][TurnNext]_vars

TurnPrompts(pos) ==
    {i \in 1..Len(turn.sent[pos]) : turn.sent[pos][i].kind = "turn"}

\* C18: the prompt delivered to the session whose turn it is contains the
\* formatted chain context: the task, every conclusion appended so far and
\* the trailing instruction with the marker :::VIBE_OUTPUT:::
TurnPromptCarriesContext ==
    \A pos \in 1..Len(turn.grid) : \A i \in TurnPrompts(pos) :
        /\ ContainsSeq(turn.sent[pos][i].data, turn.sent[pos][i].want)
        /\ Has(turn.sent[pos][i].data, ChainMarker)

\* what sendNextTurn did to the cursor, the auto-advance flag and the commands
AdvanceStep ==
    /\ turn.currentSeqIndex = turn.last.before + 1
    /\ IF turn.currentSeqIndex >= Len(turn.turnSequence)
       THEN /\ ~turn.autoTurnEnabled
            /\ turn.statusMsg = "Auto-Turn Sequence Completed"
            /\ turn.last.issued = {}
       ELSE turn.last.issued = {turn.turnSequence[turn.currentSeqIndex + 1]}

\* the prompts a session was sent are those of the turn commands run for it
PromptsOnlyForTarget ==
    \A pos \in 1..Len(turn.grid) :
        Cardinality(TurnPrompts(pos)) =
            Cardinality({i \in 1..Len(turn.runs) :
                            /\ turn.runs[i].target = turn.grid[pos]
                            /\ turn.runs[i].wrote})

\* C20 as stated: sendNextTurn moves the cursor forward by exactly one; past
\* the last element auto-advance is cleared, "sequence completed" is reported
\* and no signal is sent; otherwise the signal is sent to the session at the
\* new cursor position and to no other
AdvanceAlwaysMoves ==
    /\ turn.last.op = "sendNextTurn" => AdvanceStep
    /\ \A i \in 1..Len(turn.runs) : turn.runs[i].wrote
    /\ PromptsOnlyForTarget

\* C20: with an empty sequence sendNextTurn does nothing; otherwise it moves
\* the cursor forward by exactly one; past the last element auto-advance is
\* cleared, "sequence completed" is reported and no signal is sent; otherwise
\* the signal is issued for the session at the new cursor position and for
\* no other, and it is written to that session when, and only when, the
\* session is running as the command executes
AdvanceWhenSequenced ==
    /\ turn.last.op = "sendNextTurn" =>
          IF turn.last.len = 0
          THEN /\ turn.currentSeqIndex = turn.last.before
               /\ turn.last.issued = {}
          ELSE AdvanceStep
    /\ \A i \in 1..Len(turn.runs) : turn.runs[i].wrote = turn.runs[i].running
    /\ PromptsOnlyForTarget

\* over the sequence A, B, A the cursor went from 0 to 1 and B got the prompt
AdvanceWhenSequencedWitness ==
    /\ turn.last.op = "sendNextTurn"
    /\ turn.last.before = 0
    /\ turn.turnSequence = <<"A", "B", "A">>
    /\ turn.last.issued = {"B"}
    /\ TurnPrompts(2) # {}
    /\ TurnPrompts(1) = {}

(***************************************************************************)
(* SpecParse: one sequence expression over one grid is parsed.             *)
(***************************************************************************)
ExprChars == {"0", "1", "2", "3", ",", "-", "sp"}

Exprs == UNION {[1..n -> ExprChars] : n \in 0..MaxExpr}

\* what is written in an expression: single indices and ranges lo-hi
Items ==
    {[lo |-> i, hi |-> i, range |-> FALSE] : i \in 0..MaxGrid}
        \cup {[lo |-> i, hi |-> j, range |-> TRUE] : i \in 0..MaxGrid, j \in 0..MaxGrid}

RenderItem(it) ==
    IF it.range THEN <<DigitChars[it.lo + 1], "-", DigitChars[it.hi + 1]>>
    ELSE <<DigitChars[it.lo + 1]>>

RECURSIVE Render(_, _)
Render(items, spaced) ==
    IF items = <<>> THEN <<>>
    ELSE IF Len(items) = 1 THEN RenderItem(items[1])
    ELSE RenderItem(items[1]) \o (IF spaced THEN <<",", "sp">> ELSE <<",">>)
            \o Render(Tail(items), spaced)

\* the item lists whose text fits an expression
Renderable ==
    {il \in UNION {[1..n -> Items] : n \in 0..MaxItems} :
        Len(Render(il, FALSE)) <= MaxExpr}

\* what the items denote over the ids g: g[i] for an index i in range,
\* g[lo..hi] in ascending order for a range, nothing for what is out of range
ItemIDs(it, g) ==
    LET top == IF it.hi < Len(g) - 1 THEN it.hi ELSE Len(g) - 1 IN
    IF it.lo > top THEN <<>>
    ELSE [k \in 1..(top - it.lo + 1) |-> g[it.lo + k]]

RECURSIVE ItemsIDs(_, _)
ItemsIDs(items, g) ==
    IF items = <<>> THEN <<>>
    ELSE ItemIDs(items[1], g) \o ItemsIDs(Tail(items), g)

Expected(items, g) ==
    IF ItemsIDs(items, g) = <<>> THEN g ELSE ItemsIDs(items, g)

\* the inputs: any expression, and the text of every item list
ParseInputs ==
    {[expr |-> expr, written |-> <<>>, asWritten |-> FALSE] : expr \in Exprs}
        \cup {[expr |-> Render(il, spaced), written |-> il, asWritten |-> TRUE] :
                 il \in Renderable, spaced \in BOOLEAN}

ParseInit ==
    \E grid \in Grids, in \in ParseInputs :
        turn = [NewTurn(grid, in.expr) EXCEPT !.written = in.written,
                                              !.asWritten = in.asWritten]

\* the sequence field of the dialog is submitted
ParseStep ==
    /\ ~turn.parsed
    /\ turn' = initAutoTurn(turn, turn.expr)
    /\ UNCHANGED <<NonTurn, chainVars>>

ParseNext == ParseStep

InitParse ==
    RingInit /\ SessInit /\ WatchOff /\ InputOff /\ ChainOff /\ ParseInit
        /\ EnvOff /\ CallOff /\ ExtOff /\ LockOff

SpecParse == InitParse /\ [][ParseNext]_vars

\* C19: the empty expression yields all ids; an expression written as a
\* list of indices and ranges yields g[i] for each index in range and
\* g[lo..hi] ascending for each range with lo <= hi, in the order written,
\* nothing for out-of-range indices and reversed ranges, and all ids when
\* nothing remains; every element of the result is a grid id
ParsedAsWritten ==
    turn.parsed =>
        /\ turn.expr = <<>> => turn.turnSequence = turn.grid
        /\ turn.asWritten => turn.turnSequence = Expected(turn.written, turn.grid)
        /\ \A i \in 1..Len(turn.turnSequence) :
              \E j \in 1..Len(turn.grid) : turn.turnSequence[i] = turn.grid[j]
        /\ turn.turnSequence # <<>>

\* "1-2,0" over three ids gave B, C, A
ParsedAsWrittenWitness ==
    /\ turn.parsed /\ turn.asWritten
    /\ turn.expr = <<"1", "-", "2", ",", "0">>
    /\ turn.grid = <<"A", "B", "C">>
    /\ turn.turnSequence = <<"B", "C", "A">>

(***************************************************************************)
(* SpecEnv: CreateSession calls for two projects with profiles the caller  *)
(* owns; sessions end.                                                     *)
(***************************************************************************)
EnvInit == \E overlays \in [ProfObjs -> UserOverlays] : env = NewEnv(overlays)

\* CreateSession(project p, profile object pr), engine.go lines 50-123
EnvCreateSession(p, pr, outcome) ==
    /\ env.creates < MaxCreates
    /\ LET before == env.prof[pr]
           call == [called |-> TRUE, project |-> p, profile |-> pr, err |-> "",
                    before |-> before.vars, after |-> before.vars]
       IN
       IF env.entry[p] = "running"
       THEN env' = [env EXCEPT !.creates = @ + 1, !.last = call]
       ELSE IF outcome = "nopath"
       THEN env' = [env EXCEPT !.creates = @ + 1, !.entry[p] = "none",
                               !.last = [call EXCEPT !.err = outcome]]
       ELSE LET after == InjectConfigDir(before, p) IN
            env' = [env EXCEPT
                       !.creates = @ + 1,
                       !.prof[pr] = after,
                       !.entry[p] = IF outcome = "ok" THEN "running" ELSE "none",
                       !.launches = IF outcome = "ok"
                                    THEN Append(@, [project |-> p, profile |-> pr,
                                                    vars |-> after.vars])
                                    ELSE @,
                       !.last = [call EXCEPT !.after = after.vars,
                                             !.err = IF outcome = "ok" THEN ""
                                                     ELSE outcome]]
    /\ UNCHANGED NonEnv

\* the session of a project stops: its child exits or it is stopped
EnvSessionStops(p) ==
    /\ env.entry[p] = "running"
    /\ env' = [env EXCEPT !.entry[p] = "stopped"]
    /\ UNCHANGED NonEnv

EnvNext ==
    \/ \E p \in EnvProjects, pr \in ProfObjs, outcome \in CreateOutcomes :
          EnvCreateSession(p, pr, outcome)
    \/ \E p \in EnvProjects : EnvSessionStops(p)

InitEnv ==
    RingInit /\ SessInit /\ WatchOff /\ InputOff /\ ChainOff /\ TurnOff
        /\ EnvInit /\ CallOff /\ ExtOff /\ LockOff

SpecEnv == InitEnv /\ [][EnvNext]_vars

\* C21: after a CreateSession call, successful or failed, the caller's
\* profile has the same environment overlay, keys and values, as before the
\* call; no isolation-directory variable has been added to it
ProfileUntouched ==
    env.last.called =>
        /\ env.prof[env.last.profile].vars = env.last.before
        /\ env.last.after = env.last.before

\* C22: the child launched for project P has the isolation-directory
\* variable set to sessions/<P.id> when the user's overlay did not define
\* it, and to the user's value when it did, for every sequence of
\* CreateSession calls, the same profile passed for different projects
\* included
IsolationPerProject ==
    \A i \in 1..Len(env.launches) :
        LET l == env.launches[i]
            user == env.user[l.profile].vars
        IN  /\ ConfigDirKey \in DOMAIN l.vars
            /\ l.vars[ConfigDirKey] =
                   IF ConfigDirKey \in DOMAIN user THEN user[ConfigDirKey]
                   ELSE sessionConfigDir(l.project)

(***************************************************************************)
(* SpecBuild: BuildCommand is called again and again on one profile, with  *)
(* the driver's configuration and the process environment fixed.           *)
(***************************************************************************)
CommandLines == {<<>>, <<"claude", "--resume">>, <<"codex">>}

ProcessEnvs ==
    {<<<<"PATH", "/bin">>>>,
     <<<<"PATH", "/bin">>, <<"NODE_OPTIONS", "--inspect">>>>}

BuildInit ==
    \E overlay \in UserOverlays, words \in CommandLines, osenv \in ProcessEnvs,
       claudePath \in {"", "/opt/claude"}, codexPath \in {"", "/opt/codex"},
       resolves \in BOOLEAN :
        env = [NewEnv([pr \in ProfObjs |-> overlay]) EXCEPT
                  !.words = words, !.osenv = osenv, !.claudePath = claudePath,
                  !.codexPath = codexPath, !.resolves = resolves]

\* BuildCommand(workDir, profile prA); the range over profile.EnvVars visits
\* the keys in any order
BuildCommand ==
    /\ Len(env.built) < MaxBuilds
    /\ \E order \in Orderings(DOMAIN env.prof["prA"].vars) :
          env' = [env EXCEPT !.built =
                     Append(@, IF ~env.resolves
                               THEN [err |-> "command not found",
                                     argv |-> <<>>, env |-> <<>>]
                               ELSE [err |-> "",
                                     argv |-> BuildArgv(env.words, env.claudePath,
                                                        env.codexPath),
                                     env |-> BuildEnv(env.osenv, env.prof["prA"],
                                                      order)])]
    /\ UNCHANGED NonEnv

BuildNext == BuildCommand

InitBuild ==
    RingInit /\ SessInit /\ WatchOff /\ InputOff /\ ChainOff /\ TurnOff
        /\ BuildInit /\ CallOff /\ ExtOff /\ LockOff

SpecBuild == InitBuild /\ [][BuildNext]_vars

\* C23: for a fixed command string and overlay and an unchanged process
\* environment, two calls of BuildCommand return the same argv and the same
\* environment list, element for element and in the same order
BuildDeterministic ==
    \A i, j \in 1..Len(env.built) :
        /\ env.built[i].argv = env.built[j].argv
        /\ env.built[i].env = env.built[j].env

(***************************************************************************)
(* ExtractConclusion (internal/runtime).  Terminal output is a sequence of *)
(* atoms; an atom stands for the text it names, "nl" for "\n", "sp" for a  *)
(* space and "csi" for the escape sequence ESC[0m.                         *)
(***************************************************************************)
CtrlHint == "Ctrl+C quits"
Thinking == "Thinking..."
StatusBar == "session bar | ready"
OldAnswer == "an older answer"
LongAnswer == "a long answer of the tool"
Draft == "draft v1"

\* len() of the text of an atom
AtomLen(a) ==
    CASE a = ChainMarker -> 17
      [] a = StatusBar -> 19
      [] a = OldAnswer -> 15
      [] a = LongAnswer -> 25
      [] a = CtrlHint -> 12
      [] a = Thinking -> 11
      [] a = Draft -> 8
      [] a \in {"50%", "75%"} -> 3
      [] OTHER -> 1

StrLen(text) ==
    LET RECURSIVE L(_)
        L(i) == IF i > Len(text) THEN 0 ELSE AtomLen(text[i]) + L(i + 1)
    IN  L(1)

\* strings.TrimSpace on text that can hold newlines
TrimSpaceAll(text) ==
    LET ix == {i \in 1..Len(text) : text[i] \notin {"sp", "nl"}} IN
    IF ix = {} THEN <<>>
    ELSE SubSeq(text, CHOOSE i \in ix : \A j \in ix : i <= j,
                      CHOOSE i \in ix : \A j \in ix : j <= i)

\* the atoms of text a predicate keeps, in order
KeepAtoms(text, Keep(_)) ==
    LET RECURSIVE K(_)
        K(i) == IF i > Len(text) THEN <<>>
                ELSE IF Keep(text[i]) THEN <<text[i]>> \o K(i + 1)
                ELSE K(i + 1)
    IN  K(1)

NotEscape(a) == a # "csi"

\* CleanOutput: the escape sequences go, then strings.TrimSpace
CleanOutput(input) == TrimSpaceAll(KeepAtoms(input, NotEscape))

\* the lines of a list a predicate keeps, in order
KeepLines(lines, Keep(_)) ==
    LET RECURSIVE K(_)
        K(i) == IF i > Len(lines) THEN <<>>
                ELSE IF Keep(lines[i]) THEN <<lines[i]>> \o K(i + 1)
                ELSE K(i + 1)
    IN  K(1)

\* the trimmed lines of isolateFinalFrame that can be the separator: the
\* most frequent ones among those longer than 10 that occur more than twice
\* (which of several equally frequent ones wins depends on the order the
\* map is ranged over)
lineCount(lines, t) == Cardinality({i \in 1..Len(lines) : TrimSpace(lines[i]) = t})

Separators(lines) ==
    LET cand == {t \in {TrimSpace(lines[i]) : i \in 1..Len(lines)} :
                    StrLen(t) > 10 /\ lineCount(lines, t) > 2}
    IN  {t \in cand : \A u \in cand : lineCount(lines, u) <= lineCount(lines, t)}

\* the blocks between the separator lines, each line followed by "\n"
FrameBlocks(lines, sep) ==
    LET RECURSIVE B(_, _, _)
        B(i, cur, acc) ==
            IF i > Len(lines)
            THEN IF cur # <<>> THEN Append(acc, cur) ELSE acc
            ELSE IF TrimSpace(lines[i]) = sep
            THEN B(i + 1, <<>>, IF cur # <<>> THEN Append(acc, cur) ELSE acc)
            ELSE B(i + 1, cur \o lines[i] \o <<"nl">>, acc)
    IN  B(1, <<>>, <<>>)

\* the last block whose trimmed text is longer than 20, input when none is
LastSubstantial(blocks, input) ==
    LET ix == {i \in 1..Len(blocks) : StrLen(TrimSpaceAll(blocks[i])) > 20} IN
    IF ix = {} THEN input
    ELSE TrimSpaceAll(blocks[CHOOSE i \in ix : \A j \in ix : j <= i])

\* isolateFinalFrame: every text it can return
isolateFinalFrame(input) ==
    LET lines == Split(input, "nl") IN
    IF Len(lines) < 10 \/ Separators(lines) = {} THEN {input}
    ELSE {LastSubstantial(FrameBlocks(lines, sep), input) : sep \in Separators(lines)}

\* mutation of extractFromDelimiter: the first occurrence of the token
extractFromFirstDelimiter(input) ==
    LET idx == IndexFrom(input, ChainMarker, 1) IN
    IF idx # 0
    THEN [text |-> TrimSpaceAll(SubSeq(input, idx + 1, Len(input))), found |-> TRUE]
    ELSE [text |-> input, found |-> FALSE]

\* extractFromDelimiter: strings.LastIndex of the token
extractFromDelimiter(input) ==
    LET ix == {i \in 1..Len(input) : input[i] = ChainMarker} IN
    IF ix # {}
    THEN LET idx == CHOOSE i \in ix : \A j \in ix : j <= i IN
         [text |-> TrimSpaceAll(SubSeq(input, idx + 1, Len(input))), found |-> TRUE]
    ELSE [text |-> input, found |-> FALSE]

\* removeTUINoise: of the atoms here only the key hint matches a heuristic
NotTUINoise(line) == ~Has(TrimSpace(line), CtrlHint)

removeTUINoise(input) ==
    JoinFrom(KeepLines(Split(input, "nl"), NotTUINoise), 1, "nl")

\* filterNoiseLines: empty lines and lines matching a noise pattern go
NotNoiseLine(line) ==
    /\ TrimSpace(line) # <<>>
    /\ ~Has(TrimSpace(line), Thinking)

filterNoiseLines(lines) == KeepLines(lines, NotNoiseLine)

\* normalizeDynamicContent: a percentage becomes <PCT>
normalizeDynamicContent(line) ==
    [i \in 1..Len(line) |-> IF line[i] \in {"50%", "75%"} THEN "<PCT>" ELSE line[i]]

\* deduplicateConsecutive: a line goes when it is, normalised, the line
\* before it
deduplicateConsecutive(lines) ==
    LET RECURSIVE D(_)
        D(i) == IF i > Len(lines) THEN <<>>
                ELSE IF i > 1 /\ normalizeDynamicContent(TrimSpace(lines[i]))
                                  = normalizeDynamicContent(TrimSpace(lines[i - 1]))
                THEN D(i + 1)
                ELSE <<lines[i]>> \o D(i + 1)
    IN  D(1)

\* steps 4 and 5 of ExtractConclusion
CommonCleanup(content) ==
    JoinFrom(deduplicateConsecutive(
                 filterNoiseLines(Split(removeTUINoise(content), "nl"))), 1, "nl")

\* ExtractConclusion: every result it can return
ExtractConclusion(input) ==
    LET clean == CleanOutput(input)
        ex == extractFromDelimiter(clean)
    IN  IF ex.found THEN {CommonCleanup(ex.text)}
        ELSE {CommonCleanup(c) : c \in isolateFinalFrame(clean)}

(***************************************************************************)
(* SpecExtract: ExtractConclusion applied to every text built of at most   *)
(* MaxPieces pieces.                                                       *)
(***************************************************************************)
\* a recording of five frames of a TUI, the status bar between them
Recording ==
    <<StatusBar, "nl", OldAnswer, "nl", StatusBar, "nl", OldAnswer, "nl",
      StatusBar, "nl", OldAnswer, "nl", StatusBar, "nl", OldAnswer, "nl",
      StatusBar, "nl", LongAnswer>>

Pieces ==
    {<<ChainMarker>>, <<"nl">>, <<"sp">>, <<"csi">>, <<Draft>>, <<CtrlHint>>,
     <<Thinking>>, <<"50%", "nl", "75%">>, Recording}

Texts == {Flatten(ps) : ps \in UNION {[1..n -> Pieces] : n \in 0..MaxPieces}}

ExtractInit == \E text \in Texts : ext = [NoExt EXCEPT !.text = text]

Extract ==
    /\ ~ext.done
    /\ \E result \in ExtractConclusion(ext.text) :
          ext' = [ext EXCEPT !.result = result, !.done = TRUE]
    /\ UNCHANGED NonExt

ExtractNext == Extract

InitExtract ==
    RingInit /\ SessInit /\ WatchOff /\ InputOff /\ ChainOff /\ TurnOff
        /\ EnvOff /\ CallOff /\ ExtractInit /\ LockOff

SpecExtract == InitExtract /\ [][ExtractNext]_vars

\* the cleaned text after its last marker, trimmed
AfterLastMarker(clean) ==
    LET last == CHOOSE i \in 1..Len(clean) :
                    /\ clean[i] = ChainMarker
                    /\ \A j \in (i + 1)..Len(clean) : clean[j] # ChainMarker
    IN  TrimSpaceAll(SubSeq(clean, last + 1, Len(clean)))

\* C27: when the cleaned text holds the marker, the conclusion is the
\* common cleanup of the text after the last marker: no atom of it comes
\* from before that marker, the marker is not in it, and the last frame is
\* not isolated; ":::VIBE_OUTPUT:::\ndraft v1\n" gives "draft v1"
MarkerPriority ==
    (ext.done /\ Has(CleanOutput(ext.text), ChainMarker)) =>
        LET suffix == AfterLastMarker(CleanOutput(ext.text)) IN
        /\ ext.result = CommonCleanup(suffix)
        /\ \A i \in 1..Len(ext.result) : Has(suffix, ext.result[i])
        /\ ~Has(ext.result, ChainMarker)
        /\ ext.text = <<ChainMarker, "nl", Draft, "nl">> => ext.result = <<Draft>>

\* a conclusion was extracted from a text with content before its last
\* marker and, after it, a recording whose last frame the heuristic would
\* have isolated
MarkerPriorityWitness ==
    /\ ext.done
    /\ Has(CleanOutput(ext.text), ChainMarker)
    /\ LET clean == CleanOutput(ext.text)
           suffix == AfterLastMarker(clean)
       IN  /\ \E i, j \in 1..Len(clean) :
                 i < j /\ clean[i] = Draft /\ clean[j] = ChainMarker
           /\ isolateFinalFrame(suffix) # {suffix}
           /\ Has(ext.result, StatusBar)
           /\ ~Has(ext.result, Draft)

(***************************************************************************)
(* SpecLoops: one PTYSession object, its readLoop and waitLoop, under any  *)
(* order of Start and Stop calls and the exit of the child.                *)
(***************************************************************************)
LoopsNext ==
    \E o \in Obj :
        \/ Start(o) \/ Stop(o)
        \/ RlSelect(o) \/ RlReadData(o) \/ RlReadErr(o) \/ RlClose(o)
        \/ RlSend(o) \/ RlDrop(o) \/ RlResend(o)
        \/ WlWait(o) \/ ChildExit(o)

InitLoops ==
    RingInit /\ SessionInit /\ WatchOff /\ InputOff /\ ChainOff /\ TurnOff
        /\ EnvOff /\ CallOff /\ ExtOff /\ LockOff

SpecLoops == InitLoops /\ [][LoopsNext]_vars

\* the scheduler runs both goroutines whenever they can take a step; nothing
\* makes a holder call Start or Stop, or the child write or exit
LoopsFairness ==
    \A o \in Obj :
        /\ WF_vars(RlSelect(o)) /\ WF_vars(RlReadErr(o)) /\ WF_vars(RlClose(o))
        /\ WF_vars(RlSend(o)) /\ WF_vars(RlDrop(o)) /\ WF_vars(RlResend(o))
        /\ WF_vars(WlWait(o))

SpecLoopsFair == SpecLoops /\ LoopsFairness

\* C28: once a session has left running (Stop, a failed read of the PTY,
\* the child's own exit), its readLoop and its waitLoop return and its PTY
\* master is closed, eventually
LoopsEndPtyCloses ==
    \A o \in Obj :
        (sess[o].status = "stopped")
            ~> (/\ sess[o].rl \in {"none", "exit"}
                /\ sess[o].wl \in {"none", "done"}
                /\ sess[o].ptmx # "open")

\* readLoop of the session has been started and has not returned
ReadLoopActive(s) == s.rl \notin {"none", "exit"}

\* the child was launched and pCmd.Wait() of waitLoop has not returned
ChildNotAwaited(s) == s.wl = "wait"

\* C29: at every moment the status of a session is running if and only if
\* its readLoop is active and its child has not been awaited by waitLoop
RunningIffLoopsLive ==
    \A o \in Obj :
        Built(o) =>
            ((sess[o].status = "running")
                <=> (ReadLoopActive(sess[o]) /\ ChildNotAwaited(sess[o])))

\* C30: the output channel of a session is sent on and closed by its
\* readLoop only, and once it is closed nothing is sent on it and it is not
\* closed again, under any interleaving of Start, Stop, read errors and the
\* exit of the child
NoSendAfterClose ==
    \A o \in Obj : Built(o) => ~sess[o].panic

(***************************************************************************)
(* SpecServe: the running session of SpecPump with the one WaitForOutput   *)
(* command the UI loop keeps per session: each SessionOutputMsg starts the *)
(* next command, and nothing else starts one.                              *)
(***************************************************************************)
ServeNext ==
    \/ \E o \in Obj :
        \/ RlSelect(o) \/ RlReadData(o) \/ RlReadErr(o) \/ RlClose(o)
        \/ RlSend(o) \/ RlDrop(o) \/ RlResend(o)
        \/ WlWait(o) \/ ChildExit(o)
    \/ \E t \in BagToSet(tasks) :
        \/ WaitFirst(t) \/ WaitClosed(t) \/ WaitDrain(t)
        \/ UiSessionOutput(t) \/ UiSessionStopped(t)

InitServe ==
    RingInit /\ PumpInit /\ WatchOff /\ InputOff /\ ChainOff /\ TurnOff
        /\ EnvOff /\ CallOff /\ ExtOff /\ LockOff

SpecServe == InitServe /\ [][ServeNext]_vars

\* the bytes a WaitForOutput command of session object o holds, not yet
\* handled by the UI loop
InFlight(o) ==
    (IF \E t \in BagToSet(tasks) : t.o = o /\ t.kind \in {"drain", "msgOut"}
            THEN (CHOOSE t \in BagToSet(tasks) :
                      t.o = o /\ t.kind \in {"drain", "msgOut"}).data
     ELSE <<>>)

\* C31: with one WaitForOutput command at a time, the payloads of the
\* SessionOutputMsg handled so far, followed by what the command holds, are
\* the chunks received from the channel, in order; SessionStoppedMsg is
\* handled once the channel is closed, after every chunk received has been
\* handled
FramesDeliveredInOrder ==
    \A o \in Obj :
        Built(o) =>
            /\ uiLog[o] \o InFlight(o) = sess[o].taken
            /\ sess[o].stoppedMsgs > 0 =>
                  /\ sess[o].closes > 0
                  /\ uiLog[o] = sess[o].taken

\* a command in its batching loop holds bytes and finds the channel closed
\* at its next receive, after an earlier frame was handled
FramesDeliveredInOrderWitness ==
    /\ uiLog[1] # <<>>
    /\ sess[1].closes > 0
    /\ sess[1].output = <<>>
    /\ \E t \in Pending("drain") :
          t.o = 1 /\ t.data # <<>> /\ Len(t.data) < MaxBatch

(***************************************************************************)
(* SpecLock: the RWMutex of one running PTYSession and the mutex of the    *)
(* engine, with two callers of Write and one caller of CloseSession.       *)
(* ptmx.Write returns when the PTY has room for the bytes; the child       *)
(* decides when it reads its input.                                        *)
(***************************************************************************)
\* engine.GetSession returns the session, then Write: s.mu.RLock().  A
\* pending Lock() keeps new readers out.
WriteRLock(c) ==
    /\ lk.pc[c] = "idle" /\ lk.calls[c] < MaxWrites
    /\ lk.engine = "" /\ lk.entry
    /\ lk.writer = "" /\ lk.closer # "waiting"
    /\ lk' = [lk EXCEPT !.readers = @ \cup {c}, !.pc[c] = "rlocked",
                        !.calls[c] = @ + 1]
    /\ UNCHANGED NonLock

\* Write: the status test; "session not running" returns and unlocks
WriteCheck(c) ==
    /\ lk.pc[c] = "rlocked"
    /\ lk' = IF lk.status # "running"
             THEN [lk EXCEPT !.readers = @ \ {c}, !.pc[c] = "idle"]
             ELSE [lk EXCEPT !.pc[c] = "writing"]
    /\ UNCHANGED NonLock

\* Write: s.ptmx.Write(data) returns, then the deferred RUnlock; the bytes
\* may fill the PTY's input buffer
WriteReturn(c) ==
    /\ lk.pc[c] = "writing" /\ lk.room
    /\ \E room \in BOOLEAN :
          lk' = [lk EXCEPT !.readers = @ \ {c}, !.pc[c] = "idle", !.room = room]
    /\ UNCHANGED NonLock

\* the child reads its input
ChildReads ==
    /\ ~lk.room /\ lk.status = "running"
    /\ lk' = [lk EXCEPT !.room = TRUE]
    /\ UNCHANGED NonLock

\* CloseSession: e.mu.Lock(), the entry is found, session.Stop() is called
\* and asks for s.mu.Lock()
CloseLock ==
    /\ lk.closer = "idle" /\ lk.engine = "" /\ lk.entry
    /\ lk' = [lk EXCEPT !.engine = "closer", !.closer = "waiting"]
    /\ UNCHANGED NonLock

\* Stop: s.mu.Lock() is granted when no reader and no writer holds the lock
StopLock ==
    /\ lk.closer = "waiting"
    /\ lk.readers = {} /\ lk.writer = ""
    /\ lk' = [lk EXCEPT !.writer = "closer", !.closer = "locked"]
    /\ UNCHANGED NonLock

\* Stop: the body and the deferred Unlock; CloseSession deletes the entry
\* and unlocks the engine
StopReturn ==
    /\ lk.closer = "locked"
    /\ lk' = [lk EXCEPT !.status = "stopped", !.ptmx = "closed",
                        !.writer = "", !.closer = "done",
                        !.entry = FALSE, !.engine = ""]
    /\ UNCHANGED NonLock

LockNext ==
    \/ \E c \in Callers : WriteRLock(c) \/ WriteCheck(c) \/ WriteReturn(c)
    \/ ChildReads \/ CloseLock \/ StopLock \/ StopReturn

InitLock ==
    RingInit /\ SessInit /\ WatchOff /\ InputOff /\ ChainOff /\ TurnOff
        /\ EnvOff /\ CallOff /\ ExtOff /\ LockOff

SpecLock == InitLock /\ [][LockNext]_vars

\* C32: two Write calls on one session are never inside their PTY write at
\* the same time
WritesSerialized ==
    Cardinality({c \in Callers : lk.pc[c] = "writing"}) <= 1

\* the scheduler runs every goroutine that can take a step and a lock that
\* is free is granted; nothing makes a caller call, or the child read
LockFairness ==
    /\ \A c \in Callers : WF_vars(WriteCheck(c)) /\ WF_vars(WriteReturn(c))
    /\ WF_vars(StopLock) /\ WF_vars(StopReturn)

SpecLockFair == SpecLock /\ LockFairness

\* C37: a CloseSession call, and the Stop it makes, return, also while a
\* Write to the session is blocked in the PTY write: the session gets
\* stopped and the engine's lock is released
CloseAlwaysReturns ==
    (lk.closer = "waiting")
        ~> (lk.closer = "done" /\ lk.status = "stopped" /\ lk.engine = "")

(***************************************************************************)
(* Flush timers and staged letters.  scheduleFlush arms one tea.Tick of    *)
(* the same timeout for every staged letter and none is ever cancelled,    *)
(* so the timers of a target expire in the order they were armed: when a   *)
(* flush signal for t is handled and another timer for t is still pending, *)
(* the pending one was armed by a later letter whose timeout has not yet   *)
(* elapsed.  origin names, for each staged letter, the terminal whose key  *)
(* staged it (and so the target of the timer it armed).                    *)
(***************************************************************************)

\* the flush signal for t writes staged letters the last of which was staged
\* at t
FlushWrites(t) ==
    /\ OnIMEFlush(t)
    /\ stdin'[t] # stdin[t]
    /\ Len(origin) > 0 /\ origin[Len(origin)] = t

(***************************************************************************)
(* C34: a flush signal writes the staged letters only if the full flush    *)
(* timeout has elapsed since the most recently staged letter: when the     *)
(* signal for t writes, no timer armed by a later letter at t is still     *)
(* running.                                                                *)
(***************************************************************************)
FlushOnlyAfterQuiet ==
    [][\A t \in Terms : FlushWrites(t) => ~BagIn(t, timers')]_vars

(***************************************************************************)
(* C35: whenever the turn scheduler reads turnSequence[currentSeqIndex],   *)
(* to perform a turn or to render the turn status, the cursor is within    *)
(* 0..len(turnSequence)-1, in every order of the operations: no read is    *)
(* out of range (turn.panicked records the read of updateTurnStatus that   *)
(* is), and every turn command was issued for an element of the sequence.  *)
(***************************************************************************)
CursorInRangeWhenRead ==
    /\ ~turn.panicked
    /\ \A c \in turn.cmds :
          c.kind = "turn" =>
              \E i \in 1..Len(turn.turnSequence) : turn.turnSequence[i] = c.target

(***************************************************************************)
(* SpecRestart: the running session of SpecServe, whose profile may be     *)
(* saved: the UI loop closes the session and starts the project again      *)
(* while the WaitForOutput command of the closed session is still out.     *)
(* The children write no output.                                           *)
(***************************************************************************)
RestartNext ==
    \/ \E o \in Obj :
        \/ RlSelect(o) \/ RlReadErr(o) \/ RlClose(o)
        \/ WlWait(o) \/ ChildExit(o)
    \/ \E t \in BagToSet(tasks) :
        \/ WaitClosed(t) \/ UiSessionStopped(t)
        \/ RunStartSession(t) \/ UiSessionStarted(t) \/ UiError(t)
    \/ \E p \in Projects : ProfileSaved(p)

InitRestart ==
    RingInit /\ PumpInit /\ WatchOff /\ InputOff /\ ChainOff /\ TurnOff
        /\ EnvOff /\ CallOff /\ ExtOff /\ LockOff

SpecRestart == InitRestart /\ [][RestartNext]_vars

\* the session the engine has for project p is running
EngineRunning(p) ==
    sessions[p] # 0 /\ sess[sessions[p]].status = "running"

(***************************************************************************)
(* C36: whenever the UI loop handles SessionStoppedMsg for a project       *)
(* (terminal marked stopped, writer unbound, watcher dropped), the session *)
(* the engine has for that project is not running: the message of an       *)
(* earlier session object never stops the UI state of a newer running one. *)
(***************************************************************************)
StoppedMsgOnlyWhenNotRunning ==
    [][\A t \in BagToSet(tasks) : UiSessionStopped(t) => ~EngineRunning(t.p)]_vars

(***************************************************************************)
(* SpecArgs: the CreateSession calls of SpecEnv, where the caller may also *)
(* pass a nil project or a nil profile.  Dereferencing a nil pointer is a  *)
(* run-time panic; nothing recovers it, the process ends.                  *)
(***************************************************************************)
NilArg == "nil"

Crashed == env.last.err = "panic"

\* CreateSession(project, profile), engine.go lines 50-123, either of them
\* possibly nil: project.ID is read at line 55, profile.EnvVars at line 84
CreateSessionArgs(project, profile, outcome) ==
    /\ ~Crashed
    /\ LET call == [NoEnvCall EXCEPT !.called = TRUE, !.project = project,
                                     !.profile = profile]
       IN
       IF project = NilArg
       THEN /\ env.creates < MaxCreates
            /\ env' = [env EXCEPT !.creates = @ + 1,
                                  !.last = [call EXCEPT !.err = "panic"]]
            /\ UNCHANGED NonEnv
       ELSE IF profile = NilArg
       THEN /\ env.creates < MaxCreates
            /\ env' = [env EXCEPT
                          !.creates = @ + 1,
                          !.entry[project] =
                              IF env.entry[project] = "running" THEN @ ELSE "none",
                          !.last = [call EXCEPT !.err =
                              IF env.entry[project] = "running" THEN ""
                              ELSE IF outcome = "nopath" THEN outcome
                              ELSE "panic"]]
            /\ UNCHANGED NonEnv
       ELSE EnvCreateSession(project, profile, outcome)

ArgsNext ==
    \/ \E project \in EnvProjects \cup {NilArg}, profile \in ProfObjs \cup {NilArg},
          outcome \in CreateOutcomes :
          CreateSessionArgs(project, profile, outcome)
    \/ \E p \in EnvProjects : ~Crashed /\ EnvSessionStops(p)

InitArgs ==
    RingInit /\ SessInit /\ WatchOff /\ InputOff /\ ChainOff /\ TurnOff
        /\ EnvInit /\ CallOff /\ ExtOff /\ LockOff

SpecArgs == InitArgs /\ [][ArgsNext]_vars

(***************************************************************************)
(* C38: CreateSession called with a nil profile or a nil project returns   *)
(* an error to its caller and starts nothing; it never crashes the         *)
(* process.                                                                *)
(***************************************************************************)
NilArgumentIsError ==
    (env.last.called /\ (env.last.project = NilArg \/ env.last.profile = NilArg)) =>
        /\ ~Crashed
        /\ env.last.err # ""

(***************************************************************************)
(* SpecOsc: the child writes one OSC notification sequence; the PTY reads  *)
(* deliver it to the watcher in frames that divide its bytes anywhere.     *)
(***************************************************************************)
\* OSC 9 ended by BEL, OSC 9 ended by ST, OSC 777 ended by ST
OscSeqs ==
    {<<"esc", "]", "9", ";", "x", "bel">>,
     <<"esc", "]", "9", ";", "x", "esc", "\\">>,
     <<"esc", "]", "777", ";", "notify", ";", "x", ";", "x", "esc", "\\">>}

\* case SessionOutputMsg for the next frame of the sequence: Process, the
\* events handed to the notifier
OscOutput(data) ==
    /\ \E s \in OscSeqs : IsPrefix(Flatten(frames) \o data, s)
    /\ LET st == Process(watcher, level, data, now) IN
       /\ watcher' = [st.w EXCEPT !.pendingAutoReply = ""]
       /\ evLog' = evLog \o [i \in 1..Len(st.events) |->
                                [ev |-> st.events[i], at |-> now]]
    /\ frames' = Append(frames, data)
    /\ UNCHANGED <<now, level, autoLog, NonWatch>>

OscNext ==
    \E s \in OscSeqs :
        /\ IsPrefix(Flatten(frames), s)
        /\ \E n \in 1..(Len(s) - Len(Flatten(frames))) :
              OscOutput(SubSeq(s, Len(Flatten(frames)) + 1, Len(Flatten(frames)) + n))

InitOsc ==
    RingInit /\ SessInit /\ WatchInit /\ InputOff /\ ChainOff /\ TurnOff
        /\ EnvOff /\ CallOff /\ ExtOff /\ LockOff

SpecOsc == InitOsc /\ [][OscNext]_vars

\* the notifications among the events
Notifications(evs) == SelectSeq(evs, LAMBDA ev : ev.type = "notify")

(***************************************************************************)
(* C39: once the whole of an OSC 9 or OSC 777 sequence has been delivered, *)
(* the notifications the frames produced one by one are those that         *)
(* processing their concatenation as one frame produces, however the bytes *)
(* were divided.                                                           *)
(***************************************************************************)
OscSplitAnywhere ==
    Flatten(frames) \in OscSeqs =>
        Notifications([i \in 1..Len(evLog) |-> evLog[i].ev]) =
            Notifications(Process(newOutputWatcher, level, Flatten(frames), now).events)

(***************************************************************************)
(* SpecRingPair: a buffer of the bulk-copy implementation and one of the   *)
(* byte-at-a-time implementation, of the same capacity, are given the same *)
(* writes and resets.                                                      *)
(***************************************************************************)
PairWrite ==
    \E p \in SeqsOf(Byte, 0, MaxWrite) :
        /\ Len(rbLog) + Len(p) <= MaxLog
        /\ rb' = RingWrite(rb, p)
        /\ rbEach' = WriteEach(rbEach, p)
        /\ rbLog' = rbLog \o p
        /\ UNCHANGED NonRing

PairReset ==
    /\ rb' = RingReset(rb)
    /\ rbEach' = RingReset(rbEach)
    /\ rbLog' = <<>>
    /\ UNCHANGED NonRing

PairNext == PairWrite \/ PairReset

InitPair ==
    RingInit /\ SessInit /\ WatchOff /\ InputOff /\ ChainOff /\ TurnOff
        /\ EnvOff /\ CallOff /\ ExtOff /\ LockOff

SpecRingPair == InitPair /\ [][PairNext]_vars

(***************************************************************************)
(* C40: the bulk-copy Write is equivalent to writing the same bytes one at *)
(* a time with the byte-at-a-time Write: after any sequence of writes and  *)
(* resets both buffers return the same Bytes() and the same Len().         *)
(***************************************************************************)
BulkEqualsByteAtATime ==
    /\ RingBytes(rb) = RingBytes(rbEach)
    /\ RingLen(rb) = RingLen(rbEach)

\* both buffers have wrapped, the bulk copy having taken its whole-buffer
\* branch: the same contents are held at different positions
BulkEqualsByteAtATimeWitness ==
    /\ Len(rbLog) > RingCap
    /\ rb.full /\ rbEach.full
    /\ rb.start # rbEach.start
    /\ RingBytes(rbEach) = Trailing(rbLog, RingCap)

====
